---- MODULE Spec2Model ----
(***************************************************************************)
(* Model of the temporal-aware chunking and query-time filtering pipeline  *)
(* of the RAG backend (backend/src/text_chunker.py,                        *)
(* backend/src/temporal_embeddings.py, backend/src/vector_search_manager.py).*)
(*                                                                         *)
(* Python strings are modelled as sequences of one-character strings, so   *)
(* that prefix, substring, split, strip and the regular expressions of the *)
(* source are computed character by character.                             *)
(***************************************************************************)
EXTENDS Integers, Sequences, FiniteSets, TLC

VARIABLES
    pc,        \* "idle" before a call, otherwise the name of the operation that returned
    args,      \* the arguments of that call
    ret,       \* what the call returned (or that it raised)
    libc_pads_year,  \* whether the platform's strftime pads %Y to four digits
    chunker,   \* the TextChunker object: its chunk_size and chunk_overlap
    handler,   \* the TemporalEmbeddingHandler object: min_delay, last_request_time
    clock,     \* what time.time() returns, in ticks
    call,      \* the embedding call in progress: its loop variables and its events
    attempts,  \* the times at which the handler's last two API attempts started
    ingest     \* the document being ingested and the store it is imported into

embedding == <<handler, clock, call, attempts>>
vars == <<pc, args, ret, libc_pads_year, chunker, embedding, ingest>>

NoArgs == <<>>
NoRet  == <<>>
NoChunker == <<>>
NoHandler == <<>>
NoCall == <<>>
NoIngest == <<>>

\* no TemporalEmbeddingHandler has been made
EmbeddingUnused ==
    handler = NoHandler /\ clock = 0 /\ call = NoCall /\ attempts = <<>>

\* no document has been ingested
IngestUnused == ingest = NoIngest

(***************************************************************************)
(* Character classes and Python str primitives.                            *)
(***************************************************************************)
Digits == {"0","1","2","3","4","5","6","7","8","9"}
Upper  == {"A","B","C","D","E","F","G","H","I","J","K","L","M",
           "N","O","P","Q","R","S","T","U","V","W","X","Y","Z"}
Lower  == {"a","b","c","d","e","f","g","h","i","j","k","l","m",
           "n","o","p","q","r","s","t","u","v","w","x","y","z"}
Space  == {" ", "\n", "\t"}
WordCh == Digits \cup Upper \cup Lower \cup {"_"}

DigitVal(c) ==
    CASE c = "0" -> 0 [] c = "1" -> 1 [] c = "2" -> 2 [] c = "3" -> 3
      [] c = "4" -> 4 [] c = "5" -> 5 [] c = "6" -> 6 [] c = "7" -> 7
      [] c = "8" -> 8 [] c = "9" -> 9

DigitChar(n) ==
    CASE n = 0 -> "0" [] n = 1 -> "1" [] n = 2 -> "2" [] n = 3 -> "3"
      [] n = 4 -> "4" [] n = 5 -> "5" [] n = 6 -> "6" [] n = 7 -> "7"
      [] n = 8 -> "8" [] n = 9 -> "9"

\* int(s) for a string of decimal digits
RECURSIVE ToInt(_)
ToInt(s) == IF s = <<>> THEN 0
            ELSE 10 * ToInt(SubSeq(s, 1, Len(s) - 1)) + DigitVal(s[Len(s)])

\* str(n) for n >= 0
RECURSIVE ToStr(_)
ToStr(n) == IF n < 10 THEN <<DigitChar(n)>>
            ELSE ToStr(n \div 10) \o <<DigitChar(n % 10)>>

\* s.zfill(w)
RECURSIVE ZFill(_, _)
ZFill(s, w) == IF Len(s) >= w THEN s ELSE ZFill(<<"0">> \o s, w)

AllDigits(s) == \A i \in 1..Len(s) : s[i] \in Digits

\* s[a:b] with 0-based, end-exclusive Python indices already clipped to 0..len
Slice(s, a, b) == IF b <= a THEN <<>> ELSE SubSeq(s, a + 1, b)

\* s.startswith(p), s.endswith(p), p in s
StartsWith(s, p) == Len(p) <= Len(s) /\ SubSeq(s, 1, Len(p)) = p
EndsWith(s, p)   == Len(p) <= Len(s) /\ SubSeq(s, Len(s) - Len(p) + 1, Len(s)) = p
MatchAt(s, i, p) == i + Len(p) <= Len(s) /\ SubSeq(s, i + 1, i + Len(p)) = p
Contains(s, p)   == \E i \in 0..(Len(s) - Len(p)) : MatchAt(s, i, p)

\* s.find(p, from): the least 0-based index >= from where p occurs, else -1
FindFrom(s, p, from) ==
    LET last == Len(s) - Len(p)
    IN  IF \E i \in from..last : MatchAt(s, i, p)
        THEN CHOOSE i \in from..last :
                 MatchAt(s, i, p) /\ \A j \in from..(i - 1) : ~MatchAt(s, j, p)
        ELSE -1

Find(s, p) == FindFrom(s, p, 0)

\* s.lower() on the ASCII letters
LowerOf(c) ==
    CASE c = "A" -> "a" [] c = "B" -> "b" [] c = "C" -> "c" [] c = "D" -> "d"
      [] c = "E" -> "e" [] c = "F" -> "f" [] c = "G" -> "g" [] c = "H" -> "h"
      [] c = "I" -> "i" [] c = "J" -> "j" [] c = "K" -> "k" [] c = "L" -> "l"
      [] c = "M" -> "m" [] c = "N" -> "n" [] c = "O" -> "o" [] c = "P" -> "p"
      [] c = "Q" -> "q" [] c = "R" -> "r" [] c = "S" -> "s" [] c = "T" -> "t"
      [] c = "U" -> "u" [] c = "V" -> "v" [] c = "W" -> "w" [] c = "X" -> "x"
      [] c = "Y" -> "y" [] c = "Z" -> "z" [] OTHER -> c

ToLower(s) == [i \in 1..Len(s) |-> LowerOf(s[i])]

\* s.strip(): from the first to the last character that is not blank
Strip(s) ==
    LET solid == {i \in 1..Len(s) : s[i] \notin Space}
    IN  IF solid = {} THEN <<>>
        ELSE SubSeq(s, CHOOSE a \in solid : \A i \in 1..(a - 1) : i \notin solid,
                       CHOOSE b \in solid : \A i \in (b + 1)..Len(s) : i \notin solid)

\* sep.join(parts)
RECURSIVE Join(_, _)
Join(parts, sep) ==
    IF parts = <<>> THEN <<>>
    ELSE IF Len(parts) = 1 THEN parts[1]
    ELSE parts[1] \o sep \o Join(Tail(parts), sep)

\* a dict lookup d.get(k, default); a dict is a function from key strings
Get(d, k, default) == IF k \in DOMAIN d THEN d[k] ELSE default

\* the elements of a sequence
Range(s) == {s[i] : i \in 1..Len(s)}

\* all sequences over S of length 0..n
SeqsUpTo(S, n) == UNION {[1..k -> S] : k \in 0..n}

(***************************************************************************)
(* Optional[str]: None, or a string.                                       *)
(***************************************************************************)
None    == [some |-> FALSE, v |-> <<>>]
Some(v) == [some |-> TRUE,  v |-> v]

(***************************************************************************)
(* dateutil.parser.parse(s, fuzzy=False), as far as the strings of this    *)
(* model go: a date of three numeric tokens joined by one separator        *)
(* ("-" or "/"), optionally followed by "T", HH ":" MM and by "Z".  Any    *)
(* other string of the model's alphabet holds a token the parser does not  *)
(* know and makes it raise.                                                *)
(***************************************************************************)
NowYear == 2026

\* timelex: maximal runs of digits, every other character a token of its own
RECURSIVE Tokens(_)
Tokens(s) ==
    IF s = <<>> THEN <<>>
    ELSE IF s[1] \in Digits
         THEN LET n == CHOOSE k \in 1..Len(s) :
                          /\ \A i \in 1..k : s[i] \in Digits
                          /\ (k = Len(s) \/ s[k + 1] \notin Digits)
              IN  <<SubSeq(s, 1, n)>> \o Tokens(SubSeq(s, n + 1, Len(s)))
         ELSE <<<<s[1]>>>> \o Tokens(Tail(s))

IsLeap(y) == (y % 4 = 0 /\ y % 100 # 0) \/ y % 400 = 0

DaysInMonth(y, m) ==
    IF m = 2 THEN (IF IsLeap(y) THEN 29 ELSE 28)
    ELSE IF m \in {4, 6, 9, 11} THEN 30 ELSE 31

\* parserinfo.convertyear: a two-digit year is taken within 50 years of now
convertyear(year, century_specified) ==
    IF year < 100 /\ ~century_specified
    THEN LET y1 == year + (NowYear \div 100) * 100
         IN  IF y1 >= NowYear + 50 THEN y1 - 100
             ELSE IF y1 < NowYear - 50 THEN y1 + 100
             ELSE y1
    ELSE year

ParseFail == [ok |-> FALSE, y |-> 0, m |-> 0, d |-> 0, hh |-> 0, mi |-> 0, aware |-> FALSE]

\* _ymd.resolve_ymd (dayfirst = yearfirst = False) for three numeric members:
\* a member of more than two digits is the year; returns <<year, month, day>>
resolve_ymd(t1, t2, t3) ==
    LET a == ToInt(t1)  b == ToInt(t2)  c == ToInt(t3)
        ystridx == IF Len(t1) > 2 THEN 0 ELSE IF Len(t2) > 2 THEN 1
                   ELSE IF Len(t3) > 2 THEN 2 ELSE -1
    IN  IF a > 31 \/ ystridx = 0 THEN <<a, b, c>>
        ELSE IF a > 12 THEN <<c, b, a>>
        ELSE <<c, a, b>>

DateutilParse(s) ==
    LET t == Tokens(s)
        n == Len(t)
        dateShape == /\ n \in {5, 9, 10}
                     /\ AllDigits(t[1]) /\ AllDigits(t[3]) /\ AllDigits(t[5])
                     /\ t[2] \in {<<"-">>, <<"/">>} /\ t[4] = t[2]
                     /\ \A i \in {1, 3, 5} : Len(t[i]) \in 1..4
                     \* "Year is already set": at most one member of 3+ digits
                     /\ Cardinality({i \in {1, 3, 5} : Len(t[i]) > 2}) <= 1
        timeShape == n = 5 \/ ( /\ t[6] = <<"T">>
                               /\ AllDigits(t[7]) /\ Len(t[7]) \in 1..2
                               /\ t[8] = <<":">>
                               /\ AllDigits(t[9]) /\ Len(t[9]) = 2
                               /\ (n = 9 \/ t[10] = <<"Z">>) )
    IN  IF ~(dateShape /\ timeShape) THEN ParseFail
        ELSE LET ymd  == resolve_ymd(t[1], t[3], t[5])
                 cent == \E i \in {1, 3, 5} : Len(t[i]) > 2
                 y    == convertyear(ymd[1], cent)
                 m    == ymd[2]
                 d    == ymd[3]
                 hh   == IF n = 5 THEN 0 ELSE ToInt(t[7])
                 mi   == IF n = 5 THEN 0 ELSE ToInt(t[9])
             IN  IF /\ y \in 1..9999 /\ m \in 1..12 /\ d >= 1
                    /\ d <= DaysInMonth(y, m) /\ hh <= 23 /\ mi <= 59
                 THEN [ok |-> TRUE, y |-> y, m |-> m, d |-> d,
                       hh |-> hh, mi |-> mi, aware |-> (n = 10)]
                 ELSE ParseFail

\* datetime.strftime('%Y-%m-%d'): %m and %d are zero-padded; %Y is padded to
\* four digits or not, depending on the C library
strftime_ymd(p, pads) ==
    (IF pads THEN ZFill(ToStr(p.y), 4) ELSE ToStr(p.y))
        \o <<"-">> \o ZFill(ToStr(p.m), 2) \o <<"-">> \o ZFill(ToStr(p.d), 2)

(***************************************************************************)
(* TemporalEmbeddingHandler._normalize_date                                *)
(***************************************************************************)
OrdinalSuffixes == {<<"s","t">>, <<"n","d">>, <<"r","d">>, <<"t","h">>}

\* re.sub(r'(\d+)(st|nd|rd|th)([,.\s])', r'\1\3', s)
RECURSIVE RemoveOrdinals(_, _)
RemoveOrdinals(s, i) ==
    IF i > Len(s) THEN <<>>
    ELSE IF /\ i >= 2 /\ s[i - 1] \in Digits /\ i + 2 <= Len(s)
            /\ SubSeq(s, i, i + 1) \in OrdinalSuffixes
            /\ s[i + 2] \in ({",", "."} \cup Space)
         THEN RemoveOrdinals(s, i + 2)
         ELSE <<s[i]>> \o RemoveOrdinals(s, i + 1)

\* re.sub(r'\.(\d{4})', r' \1', s)
PeriodBeforeYear(s) ==
    [i \in 1..Len(s) |->
        IF s[i] = "." /\ i + 4 <= Len(s) /\ AllDigits(SubSeq(s, i + 1, i + 4))
        THEN " " ELSE s[i]]

IsIsoShape(s) ==
    /\ Len(s) = 10
    /\ AllDigits(SubSeq(s, 1, 4)) /\ s[5] = "-"
    /\ AllDigits(SubSeq(s, 6, 7)) /\ s[8] = "-"
    /\ AllDigits(SubSeq(s, 9, 10))

\* re.match(r'^\d{4}-\d{2}-\d{2}$', s): $ also matches before a final newline
MatchesIsoRegex(s) ==
    \/ IsIsoShape(s)
    \/ (Len(s) = 11 /\ s[11] = "\n" /\ IsIsoShape(SubSeq(s, 1, 10)))

_normalize_date(date_string, pads) ==
    IF date_string = <<>> THEN None
    ELSE LET cleaned == PeriodBeforeYear(RemoveOrdinals(date_string, 1))
             parsed  == DateutilParse(cleaned)
         IN  IF parsed.ok THEN Some(strftime_ymd(parsed, pads))
             ELSE IF MatchesIsoRegex(date_string) THEN Some(date_string)
             ELSE None

(***************************************************************************)
(* TemporalEmbeddingHandler.extract_temporal_info on query text.  The      *)
(* patterns below are the ones that can match a string of digits, "-",     *)
(* "/", blanks and the letters of the query words of this model; every     *)
(* other pattern of the source needs a letter those strings do not hold    *)
(* (a month name, Q, FY, H, "year", "ago", ...).                           *)
(***************************************************************************)
IsWordAt(s, i) == i >= 1 /\ i <= Len(s) /\ s[i] \in WordCh

\* \b between s[i] and s[i+1] (1-based; i = 0 is the start, i = Len(s) the end)
WordBoundary(s, i) == IsWordAt(s, i) # IsWordAt(s, i + 1)

DigitsAt(s, i, n) == i + n - 1 <= Len(s) /\ AllDigits(SubSeq(s, i, i + n - 1))
CharAt(s, i, c)   == i <= Len(s) /\ s[i] = c

\* the last index of a match of the pattern that starts at index i, or 0
\*   "iso"   \b\d{4}-\d{2}-\d{2}\b
\*   "slash" \b\d{1,2}/\d{1,2}/\d{4}\b
\*   "year"  \b(?:19|20)\d{2}\b
MatchEnd(pat, s, i) ==
    IF ~WordBoundary(s, i - 1) THEN 0
    ELSE IF pat = "iso"
    THEN IF /\ DigitsAt(s, i, 4) /\ CharAt(s, i + 4, "-") /\ DigitsAt(s, i + 5, 2)
            /\ CharAt(s, i + 7, "-") /\ DigitsAt(s, i + 8, 2) /\ WordBoundary(s, i + 9)
         THEN i + 9 ELSE 0
    ELSE IF pat = "slash"
    THEN LET ok(a, b) == /\ DigitsAt(s, i, a) /\ CharAt(s, i + a, "/")
                         /\ DigitsAt(s, i + a + 1, b) /\ CharAt(s, i + a + 1 + b, "/")
                         /\ DigitsAt(s, i + a + b + 2, 4)
                         /\ WordBoundary(s, i + a + b + 5)
         IN  \* greedy quantifiers: two digits are tried before one
             IF ok(2, 2) THEN i + 9 ELSE IF ok(2, 1) THEN i + 8
             ELSE IF ok(1, 2) THEN i + 8 ELSE IF ok(1, 1) THEN i + 7 ELSE 0
    ELSE \* "year"
         IF /\ DigitsAt(s, i, 4) /\ SubSeq(s, i, i + 1) \in {<<"1","9">>, <<"2","0">>}
            /\ WordBoundary(s, i + 3)
         THEN i + 3 ELSE 0

\* re.finditer: leftmost matches, left to right, not overlapping
RECURSIVE FindIter(_, _, _, _)
FindIter(pat, type, s, i) ==
    LET From(starts) ==
            IF starts = {} THEN <<>>
            ELSE LET At(j, e) ==
                         <<[type |-> type, value |-> SubSeq(s, j, e),
                            position |-> <<j - 1, e>>]>>
                         \o FindIter(pat, type, s, e + 1)
                     First(j) == At(j, MatchEnd(pat, s, j))
                 IN  First(CHOOSE j \in starts : \A k \in starts : j <= k)
    IN  From({j \in i..Len(s) : MatchEnd(pat, s, j) # 0})

\* first occurrence of every position, in extraction order
RECURSIVE UniqueByPosition(_, _)
UniqueByPosition(es, seen) ==
    IF es = <<>> THEN <<>>
    ELSE IF es[1].position \in seen THEN UniqueByPosition(Tail(es), seen)
    ELSE <<es[1]>> \o UniqueByPosition(Tail(es), seen \cup {es[1].position})

extract_temporal_info(text) ==
    UniqueByPosition(   FindIter("iso", "date", text, 1)
                     \o FindIter("slash", "date", text, 1)
                     \o FindIter("year", "year", text, 1), {})

(***************************************************************************)
(* VectorSearchManager: query-time temporal filter and recency sort.       *)
(* Optional[dict]: NoFilter is None; a dict is a function from key strings.*)
(***************************************************************************)
NoFilter      == [some |-> FALSE, f |-> <<>>]
SomeFilter(f) == [some |-> TRUE,  f |-> f]
\* Python truthiness of an Optional[dict]
Truthy(filter) == filter.some /\ DOMAIN filter.f # {}

temporal_keywords ==
    << <<"l","a","t","e","s","t">>,
       <<"m","o","s","t"," ","r","e","c","e","n","t">>,
       <<"n","e","w","e","s","t">>,
       <<"c","u","r","r","e","n","t">>,
       <<"r","e","c","e","n","t">>,
       <<"l","a","s","t">>,
       <<"u","p"," ","t","o"," ","d","a","t","e">>,
       <<"u","p","-","t","o","-","d","a","t","e">>,
       <<"t","o","d","a","y">>,
       <<"t","h","i","s"," ","y","e","a","r">>,
       <<"t","h","i","s"," ","q","u","a","r","t","e","r">>,
       <<"t","h","i","s"," ","m","o","n","t","h">> >>

_detect_temporal_intent(query_text) ==
    \E k \in 1..Len(temporal_keywords) :
        Contains(ToLower(query_text), temporal_keywords[k])

\* a < b for Python strings of digits (code point order)
RECURSIVE StrLess(_, _)
StrLess(a, b) ==
    IF b = <<>> THEN FALSE
    ELSE IF a = <<>> THEN TRUE
    ELSE IF a[1] # b[1] THEN DigitVal(a[1]) < DigitVal(b[1])
    ELSE StrLess(Tail(a), Tail(b))

\* mutant: the first year found instead of the greatest
StrMax_First(ss) == ss[1]

\* max(years): the first of the greatest elements
StrMax(ss) == ss[CHOOSE i \in 1..Len(ss) :
                    /\ \A j \in 1..Len(ss) : ~StrLess(ss[i], ss[j])
                    /\ \A j \in 1..(i - 1) : StrLess(ss[j], ss[i])]

_extract_temporal_filter_from_query(query_text, pads) ==
    LET DateFilter(raw_date, normalized_date) ==
            IF normalized_date.some
            THEN SomeFilter([k \in {"document_date"} |-> normalized_date.v])
            ELSE SomeFilter([k \in {"document_date"} |-> raw_date])
        FromEntities(dates, years) ==
            IF dates # <<>>
            THEN DateFilter(dates[1].value, _normalize_date(dates[1].value, pads))
            ELSE IF years # <<>>
            THEN SomeFilter([k \in {"year"} |->
                                StrMax([i \in 1..Len(years) |-> years[i].value])])
            ELSE NoFilter
        From(temporal_entities) ==
            IF temporal_entities = <<>> THEN NoFilter
            ELSE FromEntities(SelectSeq(temporal_entities, LAMBDA e : e.type = "date"),
                              SelectSeq(temporal_entities, LAMBDA e : e.type = "year"))
    IN  From(extract_temporal_info(query_text))

\* mutant: the date criterion tested as a substring instead of a prefix
FilterKeeps_AnySubstring(result, filter_type, filter_value) ==
    Contains(Get(result.metadata, "document_date", <<>>), filter_value)

\* the test applied to one result by the loop of _apply_temporal_filter
FilterKeeps(result, filter_type, filter_value) ==
    LET doc_date == Get(result.metadata, "document_date", <<>>)
    IN  IF filter_type = "date" THEN StartsWith(doc_date, filter_value)
        ELSE Contains(doc_date, filter_value)

_apply_temporal_filter(results, temporal_filter) ==
    IF ~Truthy(temporal_filter) \/ results = <<>> THEN results
    ELSE LET f == temporal_filter.f
             filter_type == IF "document_date" \in DOMAIN f THEN "date"
                            ELSE IF "year" \in DOMAIN f THEN "year" ELSE "none"
         IN  IF filter_type = "none" THEN results
             ELSE LET filter_value == IF filter_type = "date"
                                      THEN f["document_date"] ELSE f["year"]
                  IN  SelectSeq(results,
                                LAMBDA r : FilterKeeps(r, filter_type, filter_value))

\* datetime values as sort keys: the day (a count that grows with the date)
\* and the minute of the day; minutes are the finest unit of the model
DateTimeKey(p) ==
    [aware |-> p.aware,
     t |-> <<(p.y * 12 + (p.m - 1)) * 31 + (p.d - 1), p.hh * 60 + p.mi>>]

\* a > b for two datetimes of the same kind
DateTimeGt(a, b) == a[1] > b[1] \/ (a[1] = b[1] /\ a[2] > b[2])
IntGt(a, b) == a > b

\* datetime.min, a naive datetime
DateTimeMin == [aware |-> FALSE, t |-> <<(1 * 12 + 0) * 31 + 0, 0>>]

get_date_key(result) ==
    LET doc_date    == Get(result.metadata, "document_date", <<>>)
        uploaded_at == Get(result.metadata, "uploaded_at", <<>>)
    IN  IF doc_date # <<>> /\ DateutilParse(doc_date).ok
        THEN DateTimeKey(DateutilParse(doc_date))
        ELSE IF uploaded_at # <<>> /\ DateutilParse(uploaded_at).ok
        THEN DateTimeKey(DateutilParse(uploaded_at))
        ELSE DateTimeMin

\* list.sort / sorted with reverse=True: descending by key, and elements with
\* equal keys keep their input order (the sort is stable)
SortDescBy(rs, key, Gt(_, _)) ==
    LET n == Len(rs)
        rank(i) == Cardinality({j \in 1..n : Gt(key[j], key[i])})
                   + Cardinality({j \in 1..(i - 1) : key[j] = key[i]}) + 1
    IN  [p \in 1..n |-> rs[CHOOSE i \in 1..n : rank(i) = p]]

\* comparing an offset-naive with an offset-aware datetime raises TypeError;
\* a sort of two or more keys of both kinds always makes such a comparison
KeysComparable(keys) ==
    \A i, j \in 1..Len(keys) : keys[i].aware = keys[j].aware

Returned(rs) == [raised |-> FALSE, results |-> rs]
Raised       == [raised |-> TRUE,  results |-> <<>>]

_sort_by_recency(results) ==
    LET SortedBy(keys) ==
            IF ~KeysComparable(keys) THEN Raised
            ELSE Returned(SortDescBy(results, [i \in 1..Len(results) |-> keys[i].t],
                                     DateTimeGt))
    IN  SortedBy([i \in 1..Len(results) |-> get_date_key(results[i])])

\* mutant: the results stay in the order they came in
SortByScore_AsGiven(results) == results

\* line 483: results.sort(key=lambda x: x['score'], reverse=True)
SortByScore(results) ==
    SortDescBy(results, [i \in 1..Len(results) |-> results[i].score], IntGt)

\* mutant: a filter found in the query text wins over the caller's
SelectFilter_ImplicitFirst(query_text, temporal_filter, results, pads) ==
    LET Chosen(implicit_filter) ==
            IF Truthy(implicit_filter) /\ results # <<>>
            THEN [filter |-> implicit_filter, applied |-> TRUE,
                  effective |-> implicit_filter]
            ELSE IF Truthy(temporal_filter) /\ results # <<>>
            THEN [filter |-> temporal_filter, applied |-> TRUE,
                  effective |-> temporal_filter]
            ELSE [filter |-> NoFilter, applied |-> FALSE, effective |-> temporal_filter]
    IN  Chosen(_extract_temporal_filter_from_query(query_text, pads))

\* query, lines 464-479: which filter is applied, the caller's or one extracted
\* from the query text
SelectFilter(query_text, temporal_filter, results, pads) ==
    IF Truthy(temporal_filter) /\ results # <<>>
    THEN [filter |-> temporal_filter, applied |-> TRUE, effective |-> temporal_filter]
    ELSE IF ~Truthy(temporal_filter) /\ results # <<>>
    THEN LET Implicit(implicit_filter) ==
                 IF Truthy(implicit_filter)
                 THEN [filter |-> implicit_filter, applied |-> TRUE,
                       effective |-> implicit_filter]
                 ELSE [filter |-> NoFilter, applied |-> FALSE,
                       effective |-> temporal_filter]
         IN  Implicit(_extract_temporal_filter_from_query(query_text, pads))
    ELSE [filter |-> NoFilter, applied |-> FALSE, effective |-> temporal_filter]

\* mutant: the recency sort runs before the score re-sort instead of after it
OrderResults_ScoreLast(results, has_temporal_intent) ==
    IF has_temporal_intent /\ results # <<>>
    THEN LET ThenByScore(byDate) ==
                 IF byDate.raised THEN Raised ELSE Returned(SortByScore(byDate.results))
         IN  ThenByScore(_sort_by_recency(results))
    ELSE Returned(SortByScore(results))

\* query, lines 481-490: re-sort by score, then by recency on temporal intent
OrderResults(results, has_temporal_intent) ==
    LET ThenByRecency(sorted2) ==
            IF has_temporal_intent /\ sorted2 # <<>>
            THEN _sort_by_recency(sorted2) ELSE Returned(sorted2)
    IN  ThenByRecency(SortByScore(results))

\* VectorSearchManager.query from the parsed neighbours on
query(query_text, neighbors, temporal_filter, pads) ==
    LET Response(sel, has_temporal_intent, final) ==
            [raised |-> final.raised,
             results |-> final.results,
             temporal_filter |-> IF Truthy(sel.effective) THEN sel.effective
                                 ELSE NoFilter,
             temporal_filter_applied |-> sel.applied,
             temporal_sort_applied |-> has_temporal_intent]
        Filtered(results, sel) ==
            IF sel.applied THEN _apply_temporal_filter(results, sel.filter)
            ELSE results
        Ordered(results, sel, has_temporal_intent) ==
            Response(sel, has_temporal_intent,
                     OrderResults(Filtered(results, sel), has_temporal_intent))
        Selected(results) ==
            Ordered(results,
                    SelectFilter(query_text, temporal_filter, results, pads),
                    _detect_temporal_intent(query_text))
    IN  Selected(SortByScore(neighbors))

(***************************************************************************)
(* extract_date_from_filename (temporal_embeddings.py:213-456).  Its       *)
(* regular expressions are matched character by character; the patterns    *)
(* compiled with re.IGNORECASE are matched on the lower-cased name.  A     *)
(* match is [ok, g] with g the captured groups.                            *)
(***************************************************************************)
NoMatch  == [ok |-> FALSE, g |-> <<>>]
Match(g) == [ok |-> TRUE,  g |-> g]

MonthNames ==
    << <<"j","a","n","u","a","r","y">>,
       <<"f","e","b","r","u","a","r","y">>,
       <<"m","a","r","c","h">>,
       <<"a","p","r","i","l">>,
       <<"m","a","y">>,
       <<"j","u","n","e">>,
       <<"j","u","l","y">>,
       <<"a","u","g","u","s","t">>,
       <<"s","e","p","t","e","m","b","e","r">>,
       <<"o","c","t","o","b","e","r">>,
       <<"n","o","v","e","m","b","e","r">>,
       <<"d","e","c","e","m","b","e","r">> >>

AbbrMonthsWithSept ==
    << <<"j","a","n">>,
       <<"f","e","b">>,
       <<"m","a","r">>,
       <<"a","p","r">>,
       <<"m","a","y">>,
       <<"j","u","n">>,
       <<"j","u","l">>,
       <<"a","u","g">>,
       <<"s","e","p">>,
       <<"s","e","p","t">>,
       <<"o","c","t">>,
       <<"n","o","v">>,
       <<"d","e","c">> >>

AbbrMonths ==
    << <<"j","a","n">>,
       <<"f","e","b">>,
       <<"m","a","r">>,
       <<"a","p","r">>,
       <<"m","a","y">>,
       <<"j","u","n">>,
       <<"j","u","l">>,
       <<"a","u","g">>,
       <<"s","e","p">>,
       <<"o","c","t">>,
       <<"n","o","v">>,
       <<"d","e","c">> >>

QuarterWords ==
    << <<"f","i","r","s","t">>,
       <<"s","e","c","o","n","d">>,
       <<"t","h","i","r","d">>,
       <<"f","o","u","r","t","h">> >>

SepUDS  == {"_", "-"} \cup Space        \* [_\-\s]
SepUD   == {"_", "-"}                   \* [_\-]
SepCSD  == {",", "."} \cup Space        \* [,\s.]
SepUDSC == SepUDS \cup {","}            \* [_\-\s,]
QuarterDigits == {"1", "2", "3", "4"}   \* [1-4]

IsDigitAt(s, i) == i >= 1 /\ i <= Len(s) /\ s[i] \in Digits
LitAt(s, i, lit) == i >= 1 /\ MatchAt(s, i - 1, lit)

\* the last index of the longest run of characters of `set` that starts at
\* index i; i - 1 when the run is empty
RunEnd(s, i, set) ==
    IF i > Len(s) \/ i < 1 THEN i - 1
    ELSE CHOOSE e \in (i - 1)..Len(s) :
             /\ \A j \in i..e : s[j] \in set
             /\ (e = Len(s) \/ s[e + 1] \notin set)

\* the alternatives of `names`, in order, that match at index i
NamesAt(names, s, i) == {k \in 1..Len(names) : LitAt(s, i, names[k])}

\* (\d{1,2}): two digits are tried before one; what follows never starts
\* with a digit, so only the longest run of at most two digits can match
DayLen(s, i) == IF DigitsAt(s, i, 2) THEN 2 ELSE IF DigitsAt(s, i, 1) THEN 1 ELSE 0

\* (?:st|nd|rd|th)?
OrdinalLen(s, i) ==
    IF i + 1 <= Len(s) /\ SubSeq(s, i, i + 1) \in
          {<<"s","t">>, <<"n","d">>, <<"r","d">>, <<"t","h">>}
    THEN 2 ELSE 0

\* (\d{1,2})(?:st|nd|rd|th)?[,\s.]+(\d{4}) from index i: groups day, year
DayYearTail(s, i) ==
    LET n == DayLen(s, i)
        j == i + n + OrdinalLen(s, i + n)
        e == RunEnd(s, j, SepCSD)
    IN  IF n > 0 /\ e >= j /\ DigitsAt(s, e + 1, 4)
        THEN Match(<<SubSeq(s, i, i + n - 1), SubSeq(s, e + 1, e + 4)>>)
        ELSE NoMatch

\* the month number of a month_map / abbr_map key
MonthNumber(name) ==
    LET k == CHOOSE k \in 1..Len(AbbrMonthsWithSept) :
                 \/ (k <= Len(MonthNames) /\ MonthNames[k] = name)
                 \/ AbbrMonthsWithSept[k] = name
        full == \E f \in 1..Len(MonthNames) : MonthNames[f] = name
        n == IF full \/ k <= 9 THEN k ELSE k - 1
    IN  ZFill(ToStr(n), 2)

\* one attempt of a pattern at index i of s
TryAt(pat, s, i) ==
    CASE pat = "ymd_sep" ->       \* (\d{4})[_\-](\d{2})[_\-](\d{2})
           IF /\ DigitsAt(s, i, 4) /\ i + 4 <= Len(s) /\ s[i + 4] \in SepUD
              /\ DigitsAt(s, i + 5, 2) /\ i + 7 <= Len(s) /\ s[i + 7] \in SepUD
              /\ DigitsAt(s, i + 8, 2)
           THEN Match(<<SubSeq(s, i, i + 3), SubSeq(s, i + 5, i + 6),
                        SubSeq(s, i + 8, i + 9)>>)
           ELSE NoMatch
      [] pat = "ymd_compact" ->   \* (?<!\d)(\d{4})(\d{2})(\d{2})(?!\d)
           IF /\ ~IsDigitAt(s, i - 1) /\ DigitsAt(s, i, 8) /\ ~IsDigitAt(s, i + 8)
           THEN Match(<<SubSeq(s, i, i + 3), SubSeq(s, i + 4, i + 5),
                        SubSeq(s, i + 6, i + 7)>>)
           ELSE NoMatch
      [] pat = "mdy_sep" ->       \* (\d{2})[_\-](\d{2})[_\-](\d{4})
           IF /\ DigitsAt(s, i, 2) /\ i + 2 <= Len(s) /\ s[i + 2] \in SepUD
              /\ DigitsAt(s, i + 3, 2) /\ i + 5 <= Len(s) /\ s[i + 5] \in SepUD
              /\ DigitsAt(s, i + 6, 4)
           THEN Match(<<SubSeq(s, i, i + 1), SubSeq(s, i + 3, i + 4),
                        SubSeq(s, i + 6, i + 9)>>)
           ELSE NoMatch
      [] pat = "month_day_year" -> \* (January|...)[_\-\s,]+(\d{1,2})(?:st|nd|rd|th)?[,\s.]+(\d{4})
           LET K == NamesAt(MonthNames, s, i)
           IN  IF K = {} THEN NoMatch
               ELSE LET name == MonthNames[CHOOSE k \in K : TRUE]
                        j == i + Len(name)
                        e == RunEnd(s, j, SepUDSC)
                        t == DayYearTail(s, e + 1)
                    IN  IF e >= j /\ t.ok THEN Match(<<name>> \o t.g) ELSE NoMatch
      [] pat = "abbr_month" ->    \* (Jan|...|Sep|Sept|...)\.?\s+(\d{1,2})(?:st|nd|rd|th)?[,\s.]+(\d{4})
           LET rest(k) ==
                   LET j  == i + Len(AbbrMonthsWithSept[k])
                       j2 == IF j <= Len(s) /\ s[j] = "." THEN j + 1 ELSE j
                       e  == RunEnd(s, j2, Space)
                   IN  IF e >= j2 THEN DayYearTail(s, e + 1) ELSE NoMatch
               K == {k \in NamesAt(AbbrMonthsWithSept, s, i) : rest(k).ok}
           IN  IF K = {} THEN NoMatch
               ELSE LET k == CHOOSE k \in K : \A l \in K : k <= l
                    IN  Match(<<AbbrMonthsWithSept[k]>> \o rest(k).g)
      [] pat = "day_first" ->     \* (\d{1,2})(?:st|nd|rd|th)?\s+(?:of\s+)?(January|...)[,\s.]+(\d{4})
           LET n  == DayLen(s, i)
               j  == i + n + OrdinalLen(s, i + n)
               e  == RunEnd(s, j, Space)
               p  == e + 1
               eo == RunEnd(s, p + 2, Space)
               p2 == IF LitAt(s, p, <<"o","f">>) /\ eo >= p + 2 THEN eo + 1 ELSE p
               K  == NamesAt(MonthNames, s, p2)
           IN  IF n = 0 \/ e < j \/ K = {} THEN NoMatch
               ELSE LET name == MonthNames[CHOOSE k \in K : TRUE]
                        j3 == p2 + Len(name)
                        e3 == RunEnd(s, j3, SepCSD)
                    IN  IF e3 >= j3 /\ DigitsAt(s, e3 + 1, 4)
                        THEN Match(<<SubSeq(s, i, i + n - 1), name,
                                     SubSeq(s, e3 + 1, e3 + 4)>>)
                        ELSE NoMatch
      [] pat = "q_year4" ->       \* Q([1-4])[_\-\s]*(?:FY[_\-\s]*)?(\d{4})
           LET p  == RunEnd(s, i + 2, SepUDS) + 1
               p2 == IF LitAt(s, p, <<"f","y">>) THEN RunEnd(s, p + 2, SepUDS) + 1 ELSE p
           IN  IF /\ LitAt(s, i, <<"q">>) /\ i + 1 <= Len(s) /\ s[i + 1] \in QuarterDigits
                  /\ DigitsAt(s, p2, 4)
               THEN Match(<<<<s[i + 1]>>, SubSeq(s, p2, p2 + 3)>>) ELSE NoMatch
      [] pat = "q_year2" ->       \* Q([1-4])[_\-\s]*(?:FY)?(\d{2})
           LET p  == RunEnd(s, i + 2, SepUDS) + 1
               p2 == IF LitAt(s, p, <<"f","y">>) THEN p + 2 ELSE p
           IN  IF /\ LitAt(s, i, <<"q">>) /\ i + 1 <= Len(s) /\ s[i + 1] \in QuarterDigits
                  /\ DigitsAt(s, p2, 2)
               THEN Match(<<<<s[i + 1]>>, SubSeq(s, p2, p2 + 1)>>) ELSE NoMatch
      [] pat = "year_q" ->        \* (\d{4})[_\-\s]*Q([1-4])
           LET p == RunEnd(s, i + 4, SepUDS) + 1
           IN  IF /\ DigitsAt(s, i, 4) /\ LitAt(s, p, <<"q">>)
                  /\ p + 1 <= Len(s) /\ s[p + 1] \in QuarterDigits
               THEN Match(<<SubSeq(s, i, i + 3), <<s[p + 1]>>>>) ELSE NoMatch
      [] pat = "word_quarter" ->  \* (first|second|third|fourth)[_\-\s]+quarter[_\-\s]*(\d{4})
           LET K == NamesAt(QuarterWords, s, i)
           IN  IF K = {} THEN NoMatch
               ELSE LET w == QuarterWords[CHOOSE k \in K : TRUE]
                        j == i + Len(w)
                        e == RunEnd(s, j, SepUDS)
                        p == RunEnd(s, e + 8, SepUDS) + 1
                    IN  IF /\ e >= j
                           /\ LitAt(s, e + 1, <<"q","u","a","r","t","e","r">>)
                           /\ DigitsAt(s, p, 4)
                        THEN Match(<<w, SubSeq(s, p, p + 3)>>) ELSE NoMatch
      [] pat \in {"month_year", "abbr_year"} ->
                                  \* (January|...)[_\-\s]*(\d{4}), (Jan|...)[_\-\s]*(\d{4})
           LET names == IF pat = "month_year" THEN MonthNames ELSE AbbrMonths
               K == NamesAt(names, s, i)
           IN  IF K = {} THEN NoMatch
               ELSE LET name == names[CHOOSE k \in K : TRUE]
                        p == RunEnd(s, i + Len(name), SepUDS) + 1
                    IN  IF DigitsAt(s, p, 4)
                        THEN Match(<<name, SubSeq(s, p, p + 3)>>) ELSE NoMatch
      [] pat = "year_month" ->    \* (\d{4})[_\-](\d{2})(?!\d)
           IF /\ DigitsAt(s, i, 4) /\ i + 4 <= Len(s) /\ s[i + 4] \in SepUD
              /\ DigitsAt(s, i + 5, 2) /\ ~IsDigitAt(s, i + 7)
           THEN Match(<<SubSeq(s, i, i + 3), SubSeq(s, i + 5, i + 6)>>)
           ELSE NoMatch
      [] pat = "fy_year4" ->      \* (?:FY|Fiscal[_\-\s]*Year)[_\-\s]*(\d{4})
           LET f == RunEnd(s, i + 6, SepUDS) + 1
               j == IF LitAt(s, i, <<"f","y">>) THEN i + 2
                    ELSE IF /\ LitAt(s, i, <<"f","i","s","c","a","l">>)
                            /\ LitAt(s, f, <<"y","e","a","r">>)
                         THEN f + 4 ELSE 0
               p == RunEnd(s, j, SepUDS) + 1
           IN  IF j > 0 /\ DigitsAt(s, p, 4)
               THEN Match(<<SubSeq(s, p, p + 3)>>) ELSE NoMatch
      [] pat = "fy_year2" ->      \* (?:FY)[_\-\s]*(\d{2})(?!\d)
           LET p == RunEnd(s, i + 2, SepUDS) + 1
           IN  IF /\ LitAt(s, i, <<"f","y">>) /\ DigitsAt(s, p, 2) /\ ~IsDigitAt(s, p + 2)
               THEN Match(<<SubSeq(s, p, p + 1)>>) ELSE NoMatch
      [] pat = "bare_year" ->     \* (?<!\d)(19|20)(\d{2})(?!\d)
           IF /\ ~IsDigitAt(s, i - 1) /\ DigitsAt(s, i, 4)
              /\ SubSeq(s, i, i + 1) \in {<<"1","9">>, <<"2","0">>}
              /\ ~IsDigitAt(s, i + 4)
           THEN Match(<<SubSeq(s, i, i + 1), SubSeq(s, i + 2, i + 3)>>)
           ELSE NoMatch

\* the first match of a sequence of match attempts
FirstMatch(ms) ==
    IF \E i \in 1..Len(ms) : ms[i].ok
    THEN ms[CHOOSE i \in 1..Len(ms) : ms[i].ok /\ \A j \in 1..(i - 1) : ~ms[j].ok]
    ELSE NoMatch

\* the first value found of a sequence of optional values
FirstSome(opts) ==
    IF \E i \in 1..Len(opts) : opts[i].some
    THEN opts[CHOOSE i \in 1..Len(opts) :
                 opts[i].some /\ \A j \in 1..(i - 1) : ~opts[j].some]
    ELSE None

\* re.search(pattern, s): the match at the least index where one exists
Search(pat, s) == FirstMatch([i \in 1..Len(s) |-> TryAt(pat, s, i)])

\* filename.rsplit('.', 1)[0] if '.' in filename else filename
name_without_ext(filename) ==
    IF ~Contains(filename, <<".">>) THEN filename
    ELSE LET last == CHOOSE i \in 1..Len(filename) :
                        /\ filename[i] = "."
                        /\ \A j \in (i + 1)..Len(filename) : filename[j] # "."
         IN  SubSeq(filename, 1, last - 1)

full_date_patterns  == <<"ymd_sep", "ymd_compact", "mdy_sep">>
quarter_patterns    == <<"q_year4", "q_year2", "year_q", "word_quarter">>
month_year_patterns == <<"month_year", "abbr_year", "year_month">>
year_patterns       == <<"fy_year4", "fy_year2", "bare_year">>

YearInRange(year) == 1900 <= ToInt(year) /\ ToInt(year) <= 2100
DayInRange(day)   == 1 <= ToInt(day) /\ ToInt(day) <= 31
\* mutant: the month is not validated
MonthInRange_Any(m) == TRUE
MonthInRange(m)   == 1 <= ToInt(m) /\ ToInt(m) <= 12

Dash == <<"-">>

\* lines 250-270: the first match of each numeric pattern in turn; a first
\* match that fails validation sends the loop to the next pattern
NumericFullDate(pats, name) ==
    LET Validated(m) ==
            LET yearFirst == Len(m.g[1]) = 4
                year  == IF yearFirst THEN m.g[1] ELSE m.g[3]
                month == IF yearFirst THEN m.g[2] ELSE m.g[1]
                day   == IF yearFirst THEN m.g[3] ELSE m.g[2]
            IN  IF m.ok /\ YearInRange(year) /\ MonthInRange(month) /\ DayInRange(day)
                THEN Some(year \o Dash \o ZFill(month, 2) \o Dash \o ZFill(day, 2))
                ELSE None
    IN  FirstSome([k \in 1..Len(pats) |-> Validated(Search(pats[k], name))])

\* lines 273-348: the three month-name forms; g is <<month, day, year>> or,
\* for the day-first form, <<day, month, year>>
NamedFullDate(pat, name) ==
    LET Validated(m) ==
            LET dayFirst == pat = "day_first"
                month == MonthNumber(IF dayFirst THEN m.g[2] ELSE m.g[1])
                day   == IF dayFirst THEN m.g[1] ELSE m.g[2]
                year  == m.g[3]
            IN  IF m.ok /\ YearInRange(year) /\ DayInRange(day)
                THEN Some(year \o Dash \o month \o Dash \o ZFill(day, 2))
                ELSE None
    IN  Validated(Search(pat, ToLower(name)))

\* matches['full_date']: each form is tried only while no earlier one has
\* given a date
FullDate(name) ==
    FirstSome(<<NumericFullDate(full_date_patterns, name),
                NamedFullDate("month_day_year", name),
                NamedFullDate("abbr_month", name),
                NamedFullDate("day_first", name)>>)

\* lines 358-379: the first pattern that matches decides; no validation
Quarter(pats, name) ==
    LET Formatted(m) ==
            LET g == m.g
                q == IF AllDigits(g[1]) /\ Len(g[1]) = 4 THEN g[2]
                     ELSE IF g[1] \in Range(QuarterWords)
                     THEN <<DigitChar(CHOOSE k \in 1..4 : QuarterWords[k] = g[1])>>
                     ELSE g[1]
                year == IF AllDigits(g[1]) /\ Len(g[1]) = 4 THEN g[1]
                        ELSE IF g[1] \in Range(QuarterWords) THEN g[2]
                        ELSE IF Len(g[2]) = 2 THEN <<"2","0">> \o g[2] ELSE g[2]
            IN  IF m.ok THEN Some(<<"Q">> \o q \o <<" ">> \o year) ELSE None
    IN  Formatted(FirstMatch([k \in 1..Len(pats) |-> Search(pats[k], ToLower(name))]))

\* lines 388-417: the first pattern that matches decides and ends the loop,
\* also when its month fails validation
MonthYear(pats, name) ==
    LET Formatted(m) ==
            LET g == m.g
            IN  IF ~m.ok THEN None
                ELSE IF \A i \in 1..Len(g[1]) : g[1][i] \in Lower
                THEN Some(g[2] \o Dash \o MonthNumber(g[1]))
                ELSE IF Len(g[1]) = 4 /\ MonthInRange(ZFill(g[2], 2))
                THEN Some(g[1] \o Dash \o ZFill(g[2], 2))
                ELSE None
    IN  Formatted(FirstMatch([k \in 1..Len(pats) |-> Search(pats[k], ToLower(name))]))

\* lines 426-444: a match outside 1900..2100 sends the loop to the next pattern
Year(pats, name) ==
    LET Validated(m) ==
            LET g == m.g
                year == IF Len(g) = 1
                        THEN IF Len(g[1]) = 2 THEN <<"2","0">> \o g[1] ELSE g[1]
                        ELSE g[1] \o g[2]
            IN  IF m.ok /\ YearInRange(year) THEN Some(year) ELSE None
    IN  FirstSome([k \in 1..Len(pats) |-> Validated(Search(pats[k], ToLower(name)))])

extract_date_from_filename(filename) ==
    IF filename = <<>> THEN None
    ELSE LET ByPriority(name) ==
                 FirstSome(<<FullDate(name),
                             Quarter(quarter_patterns, name),
                             MonthYear(month_year_patterns, name),
                             Year(year_patterns, name)>>)
         IN  ByPriority(name_without_ext(filename))

(***************************************************************************)
(* TextChunker (text_chunker.py).  self is the object made by __init__:    *)
(* its chunk_size and chunk_overlap; separators is the default list.  A    *)
(* quality score is held in hundredths (110 is 1.1); the averages and the  *)
(* size_variance entry of the quality record, which nothing reads, are     *)
(* left out.                                                               *)
(***************************************************************************)
separators ==
    << <<"\n","#","#"," ">>,
       <<"\n","#","#","#"," ">>,
       <<"\n","#","#","#","#"," ">>,
       <<"\n","\n","\n">>,
       <<"\n","\n">>,
       <<"\n","-"," ">>,
       <<"\n","*"," ">>,
       <<"\n">>,
       <<"."," ">>,
       <<"!"," ">>,
       <<"?"," ">>,
       <<";"," ">>,
       <<","," ">>,
       <<" ">>,
       <<>> >>

TableOpen  == <<"[","T","A","B","L","E">>
TableClose == <<"[","E","N","D"," ","T","A","B","L","E","]">>

Min(a, b) == IF a <= b THEN a ELSE b
Abs(n)    == IF n < 0 THEN -n ELSE n

\* s[-n:] for 0 < n <= len(s)
LastN(s, n) == SubSeq(s, Len(s) - n + 1, Len(s))

\* s.split(sep) for a non-empty sep
RECURSIVE SplitBy(_, _)
SplitBy(s, sep) ==
    LET i == Find(s, sep)
    IN  IF i = -1 THEN <<s>>
        ELSE <<SubSeq(s, 1, i)>> \o SplitBy(SubSeq(s, i + Len(sep) + 1, Len(s)), sep)

\* len(s.split()): the maximal runs of non-blank characters
WordCount(s) ==
    Cardinality({i \in 1..Len(s) : s[i] \notin Space /\ (i = 1 \/ s[i - 1] \in Space)})

\* s.count(p) for a p that cannot overlap itself
Count(s, p) == Cardinality({i \in 0..(Len(s) - Len(p)) : MatchAt(s, i, p)})

\* a match of \[TABLE\s+\d+\](.*?)\[END TABLE\] (DOTALL) starting at index i;
\* start and end are match.start() and match.end(), inner is group(1)
TableMatchAt(s, i) ==
    LET e1 == RunEnd(s, i + 6, Space)
        e2 == RunEnd(s, e1 + 1, Digits)
        k  == FindFrom(s, TableClose, e2 + 1)
    IN  IF /\ LitAt(s, i, TableOpen) /\ e1 >= i + 6 /\ e2 >= e1 + 1
           /\ e2 + 1 <= Len(s) /\ s[e2 + 1] = "]" /\ k # -1
        THEN [ok |-> TRUE, start |-> i - 1, end |-> k + Len(TableClose),
              inner |-> SubSeq(s, e2 + 2, k)]
        ELSE [ok |-> FALSE, start |-> 0, end |-> 0, inner |-> <<>>]

\* the least index >= i where the table pattern matches, or 0
NextTable(s, i) ==
    IF \E j \in i..Len(s) : TableMatchAt(s, j).ok
    THEN CHOOSE j \in i..Len(s) :
             TableMatchAt(s, j).ok /\ \A l \in i..(j - 1) : ~TableMatchAt(s, l).ok
    ELSE 0

\* re.finditer of the table pattern from index i
RECURSIVE TableMatches(_, _)
TableMatches(s, i) ==
    LET j == NextTable(s, i)
    IN  IF j = 0 THEN <<>>
        ELSE <<TableMatchAt(s, j)>> \o TableMatches(s, TableMatchAt(s, j).end + 1)

\* re.sub of the table pattern by '' from index i
RECURSIVE RemoveTables(_, _)
RemoveTables(s, i) ==
    LET j == NextTable(s, i)
    IN  IF j = 0 THEN SubSeq(s, i, Len(s))
        ELSE SubSeq(s, i, j - 1) \o RemoveTables(s, TableMatchAt(s, j).end + 1)

RECURSIVE TableBlocks(_, _)
TableBlocks(text, ms) ==
    IF ms = <<>> THEN <<>>
    ELSE LET m == ms[1]
             table_text == Strip(m.inner)
         IN  (IF Len(table_text) < 5 THEN <<>>
              ELSE <<[start |-> m.start, end |-> m.end,
                      content |-> Slice(text, m.start, m.end),
                      table_text |-> table_text, size |-> m.end - m.start]>>)
             \o TableBlocks(text, Tail(ms))

_extract_table_blocks(self, text) == TableBlocks(text, TableMatches(text, 1))

\* the loop of _split_by_separator over text.split(separator)
RECURSIVE SeparatorLoop(_, _, _, _, _)
SeparatorLoop(self, parts, separator, current_chunk, chunks) ==
    IF parts = <<>>
    THEN IF current_chunk # <<>> THEN Append(chunks, current_chunk) ELSE chunks
    ELSE LET part == parts[1]
         IN  IF Len(current_chunk) + Len(part) + Len(separator) > self.chunk_size
             THEN IF current_chunk # <<>>
                  THEN SeparatorLoop(self, Tail(parts), separator, part,
                                     Append(chunks, current_chunk))
                  ELSE SeparatorLoop(self, Tail(parts), separator, current_chunk,
                                     Append(chunks, part))
             ELSE IF current_chunk # <<>>
                  THEN SeparatorLoop(self, Tail(parts), separator,
                                     current_chunk \o separator \o part, chunks)
                  ELSE SeparatorLoop(self, Tail(parts), separator, part, chunks)

\* [text[i:i+chunk_size] for i in range(from, len(text), chunk_size - chunk_overlap)]
RECURSIVE CharacterSplit(_, _, _)
CharacterSplit(self, text, from) ==
    IF from >= Len(text) THEN <<>>
    ELSE <<Slice(text, from, Min(from + self.chunk_size, Len(text)))>>
         \o CharacterSplit(self, text, from + self.chunk_size - self.chunk_overlap)

_split_by_separator(self, text, separator) ==
    IF separator = <<>> THEN CharacterSplit(self, text, 0)
    ELSE SeparatorLoop(self, SplitBy(text, separator), separator, <<>>, <<>>)

\* the loop of _merge_and_overlap over chunks[1:]
RECURSIVE MergeLoop(_, _, _, _)
MergeLoop(self, rest, current_chunk, final_chunks) ==
    IF rest = <<>>
    THEN IF Strip(current_chunk) # <<>>
         THEN Append(final_chunks, Strip(current_chunk)) ELSE final_chunks
    ELSE LET next_chunk == rest[1]
         IN  IF Len(current_chunk) < self.chunk_size \div 2
             THEN MergeLoop(self, Tail(rest),
                            current_chunk \o <<" ">> \o next_chunk, final_chunks)
             ELSE MergeLoop(self, Tail(rest),
                     IF self.chunk_overlap > 0 /\ Len(current_chunk) > self.chunk_overlap
                     THEN LastN(current_chunk, self.chunk_overlap) \o <<" ">> \o next_chunk
                     ELSE next_chunk,
                     Append(final_chunks, Strip(current_chunk)))

_merge_and_overlap(self, chunks) ==
    IF chunks = <<>> THEN <<>> ELSE MergeLoop(self, Tail(chunks), chunks[1], <<>>)

AllSmall(self, chunks) == \A i \in 1..Len(chunks) : Len(chunks[i]) <= self.chunk_size

RECURSIVE SplitEach(_, _, _)
SplitEach(self, chunks, separator) ==
    IF chunks = <<>> THEN <<>>
    ELSE (IF Len(chunks[1]) <= self.chunk_size THEN <<chunks[1]>>
          ELSE _split_by_separator(self, chunks[1], separator))
         \o SplitEach(self, Tail(chunks), separator)

\* the loop of _split_text over the separators, left when every chunk fits
RECURSIVE SplitLoop(_, _, _)
SplitLoop(self, chunks, seps) ==
    IF seps = <<>> THEN chunks
    ELSE LET new_chunks == SplitEach(self, chunks, seps[1])
         IN  IF AllSmall(self, new_chunks) THEN new_chunks
             ELSE SplitLoop(self, new_chunks, Tail(seps))

_split_text(self, text) == _merge_and_overlap(self, SplitLoop(self, <<text>>, separators))

HasTable(chunk)      == Contains(chunk, TableOpen)
EndsWithTable(chunk) == EndsWith(Strip(chunk), TableClose)
StartsWithTable(chunk) == StartsWith(Strip(chunk), TableOpen)

\* lines 403-426: the chunk that follows a finalized current_chunk
NextCurrent(self, current_chunk, current_has_table, next_chunk, next_has_table) ==
    IF self.chunk_overlap > 0 /\ ~current_has_table /\ ~next_has_table
    THEN IF Len(current_chunk) > self.chunk_overlap
         THEN LET overlap_text   == LastN(current_chunk, self.chunk_overlap)
                  sentence_start == Find(overlap_text, <<".", " ">>)
              IN  (IF sentence_start # -1
                   THEN Slice(overlap_text, sentence_start + 2, Len(overlap_text))
                   ELSE overlap_text) \o <<"\n", "\n">> \o next_chunk
         ELSE next_chunk
    ELSE IF /\ self.chunk_overlap > 0 /\ ~EndsWithTable(current_chunk)
            /\ ~StartsWithTable(next_chunk)
    THEN IF Len(current_chunk) > self.chunk_overlap
         THEN LastN(current_chunk, Min(self.chunk_overlap, 100))
              \o <<"\n", "\n">> \o next_chunk
         ELSE next_chunk
    ELSE next_chunk

\* lines 381-392
ShouldMerge(self, current_chunk, current_has_table, next_chunk, next_has_table) ==
    IF current_has_table # next_has_table THEN FALSE
    ELSE IF /\ Len(current_chunk) < self.chunk_size \div 2
            /\ ~EndsWithTable(current_chunk)
    THEN \/ 2 * (Len(current_chunk) + Len(next_chunk)) <= 3 * self.chunk_size
         \/ Len(next_chunk) < self.chunk_size \div 2
    ELSE /\ Len(next_chunk) < self.chunk_size \div 4
         /\ ~StartsWithTable(next_chunk)

\* the loop of _merge_with_table_awareness over chunks[1:]
RECURSIVE TableMergeLoop(_, _, _, _, _, _)
TableMergeLoop(self, rest, current_chunk, current_has_table, current_is_oversized, final_chunks) ==
    IF rest = <<>>
    THEN IF Strip(current_chunk) # <<>>
         THEN Append(final_chunks, Strip(current_chunk)) ELSE final_chunks
    ELSE LET next_chunk        == rest[1]
             next_has_table    == HasTable(next_chunk)
             next_is_oversized == Len(next_chunk) > self.chunk_size * 2
         IN  IF current_is_oversized \/ next_is_oversized
             THEN TableMergeLoop(self, Tail(rest), next_chunk, next_has_table,
                                 next_is_oversized,
                                 Append(final_chunks, Strip(current_chunk)))
             ELSE IF ShouldMerge(self, current_chunk, current_has_table,
                                 next_chunk, next_has_table)
             THEN TableMergeLoop(self, Tail(rest),
                                 current_chunk \o <<"\n", "\n">> \o next_chunk,
                                 current_has_table \/ next_has_table,
                                 current_is_oversized, final_chunks)
             ELSE TableMergeLoop(self, Tail(rest),
                                 NextCurrent(self, current_chunk, current_has_table,
                                             next_chunk, next_has_table),
                                 next_has_table, current_is_oversized,
                                 Append(final_chunks, Strip(current_chunk)))

_merge_with_table_awareness(self, chunks) ==
    IF chunks = <<>> THEN <<>>
    ELSE TableMergeLoop(self, Tail(chunks), chunks[1], HasTable(chunks[1]),
                        Len(chunks[1]) > self.chunk_size * 2, <<>>)

\* lines 181-217: [text, table, text, table, ...]
RECURSIVE Segments(_, _, _, _)
Segments(text, tables, last_pos, segments) ==
    IF tables = <<>>
    THEN LET text_after == Slice(text, last_pos, Len(text))
         IN  IF Strip(text_after) # <<>>
             THEN Append(segments, [is_table |-> FALSE, content |-> text_after])
             ELSE segments
    ELSE LET table       == tables[1]
             text_before == Slice(text, last_pos, table.start)
             whitespace  == LastN(text_before, Min(Len(text_before), 2))
             before      ==
                 IF Strip(text_before) # <<>>
                 THEN Append(segments, [is_table |-> FALSE, content |-> text_before])
                 ELSE IF text_before # <<>> /\ segments # <<>>
                 THEN [segments EXCEPT ![Len(segments)].content = @ \o whitespace]
                 ELSE segments
         IN  Segments(text, Tail(tables), table.end,
                      Append(before, [is_table |-> TRUE, content |-> table.content]))

\* lines 220-229
RECURSIVE ChunkSegments(_, _)
ChunkSegments(self, segments) ==
    IF segments = <<>> THEN <<>>
    ELSE (IF segments[1].is_table THEN <<segments[1].content>>
          ELSE IF Strip(segments[1].content) # <<>>
          THEN _split_text(self, segments[1].content)
          ELSE <<>>)
         \o ChunkSegments(self, Tail(segments))

_split_text_table_aware(self, text, table_blocks) ==
    IF table_blocks = <<>> THEN _split_text(self, text)
    ELSE _merge_with_table_awareness(self,
             ChunkSegments(self, Segments(text, table_blocks, 0, <<>>)))

\* a match of (?<!\w\.\w.)(?<![A-Z][a-z]\.)(?<![A-Z]\.)(?<=\.|\?|!)\s+ starts
\* at index i
SentenceBreakAt(s, i) ==
    /\ i >= 2 /\ i <= Len(s)
    /\ s[i] \in Space
    /\ s[i - 1] \in {".", "?", "!"}
    /\ ~(i >= 5 /\ s[i - 4] \in WordCh /\ s[i - 3] = "." /\ s[i - 2] \in WordCh
              /\ s[i - 1] # "\n")
    /\ ~(i >= 4 /\ s[i - 3] \in Upper /\ s[i - 2] \in Lower /\ s[i - 1] = ".")
    /\ ~(i >= 3 /\ s[i - 2] \in Upper /\ s[i - 1] = ".")

\* re.split of the sentence pattern: the piece from index `from` to the next
\* match, then the pieces after that match
RECURSIVE SentencePieces(_, _)
SentencePieces(s, from) ==
    IF \E i \in from..Len(s) : SentenceBreakAt(s, i)
    THEN LET i == CHOOSE i \in from..Len(s) :
                     /\ SentenceBreakAt(s, i)
                     /\ \A j \in from..(i - 1) : ~SentenceBreakAt(s, j)
         IN  <<SubSeq(s, from, i - 1)>>
             \o SentencePieces(s, RunEnd(s, i, Space) + 1)
    ELSE <<SubSeq(s, from, Len(s))>>

RECURSIVE StripNonBlank(_)
StripNonBlank(ss) ==
    IF ss = <<>> THEN <<>>
    ELSE (IF Strip(ss[1]) # <<>> THEN <<Strip(ss[1])>> ELSE <<>>)
         \o StripNonBlank(Tail(ss))

_split_into_sentences(text) == StripNonBlank(SentencePieces(text, 1))

_get_chunk_quality_score(self, chunk) ==
    IF Strip(chunk) = <<>>
    THEN [char_count |-> Len(chunk), word_count |-> 0, sentence_count |-> 0,
          ends_complete |-> FALSE, starts_proper |-> FALSE, quality_score |-> 0,
          has_table |-> FALSE, table_count |-> 0, has_complete_table |-> FALSE]
    ELSE
    LET has_table          == Contains(chunk, TableOpen)
        table_count        == Count(chunk, TableOpen)
        has_complete_table == has_table /\ Contains(chunk, TableClose)
        char_count         == Len(chunk)
        word_count         == WordCount(chunk)
        text_only          == RemoveTables(chunk, 1)
        sentence_count     ==
            IF has_table
            THEN IF Strip(text_only) # <<>>
                 THEN Len(_split_into_sentences(text_only)) ELSE 0
            ELSE Len(_split_into_sentences(chunk))
        stripped              == Strip(chunk)
        ends_with_punctuation == stripped[Len(stripped)] \in {".", "!", "?", ";"}
        starts_capitalized    == stripped[1] \in Upper
        \* size_variance = deviation / chunk_size, compared without division
        deviation == Abs(char_count - self.chunk_size)
        table_score ==
            100 - (IF ~has_complete_table THEN 30 ELSE 0)
                + (IF sentence_count = 0 /\ ~has_complete_table THEN -20
                   ELSE IF sentence_count > 0 THEN 10 ELSE 0)
                - (IF deviation > 2 * self.chunk_size THEN 30
                   ELSE IF deviation > self.chunk_size THEN 15 ELSE 0)
        text_score ==
            100 - (IF ~ends_with_punctuation THEN 20 ELSE 0)
                - (IF ~starts_capitalized THEN 10 ELSE 0)
                - (IF 2 * deviation > self.chunk_size THEN 20 ELSE 0)
                - (IF sentence_count = 0 THEN 30 ELSE 0)
        quality_score == IF has_table THEN table_score ELSE text_score
    IN  [char_count |-> char_count, word_count |-> word_count,
         sentence_count |-> sentence_count,
         ends_complete |-> ends_with_punctuation,
         starts_proper |-> starts_capitalized,
         quality_score |-> IF quality_score < 0 THEN 0 ELSE quality_score,
         has_table |-> has_table, table_count |-> table_count,
         has_complete_table |-> has_complete_table]

MergeMetadata_DocumentWins(metadata, local) ==
    [k \in DOMAIN metadata \cup DOMAIN local |->
        IF k \in DOMAIN metadata THEN metadata[k] ELSE local[k]]

\* {**metadata, **local}: a chunk-local key replaces a document key of the
\* same name
MergeMetadata(metadata, local) ==
    [k \in DOMAIN metadata \cup DOMAIN local |->
        IF k \in DOMAIN local THEN local[k] ELSE metadata[k]]

chunk_text(self, text, metadata, document_id) ==
    IF Strip(text) = <<>> THEN <<>>
    ELSE
    LET Chunk(i, chunk, total, quality) ==
            [content  |-> chunk,
             metadata |-> MergeMetadata(metadata,
                 [chunk_index    |-> i,
                  total_chunks   |-> total,
                  chunk_size     |-> Len(chunk),
                  is_first_chunk |-> i = 0,
                  is_last_chunk  |-> i = total - 1,
                  quality_score  |-> quality.quality_score,
                  sentence_count |-> quality.sentence_count,
                  word_count     |-> quality.word_count,
                  has_table      |-> quality.has_table,
                  table_count    |-> quality.table_count]),
             id |-> IF document_id.some
                    THEN document_id.v \o <<"_","c","h","u","n","k","_">> \o ToStr(i)
                    ELSE <<"c","h","u","n","k","_">> \o ToStr(i)]
        Chunks(text_chunks) ==
            [n \in 1..Len(text_chunks) |->
                Chunk(n - 1, text_chunks[n], Len(text_chunks),
                      _get_chunk_quality_score(self, text_chunks[n]))]
    IN  Chunks(_split_text_table_aware(self, text, _extract_table_blocks(self, text)))

\* lines 455-479: the chunks of the pages from page_num on, chunk_index
\* being the number of chunks made so far
RECURSIVE PageLoop(_, _, _, _, _, _)
PageLoop(self, page_texts, page_num, chunk_index, metadata, document_id) ==
    IF page_num >= Len(page_texts) THEN <<>>
    ELSE
    LET page_text == page_texts[page_num + 1]
        page_label == <<"p","a","g","e">> \o ToStr(page_num + 1) \o <<"_","c","h","u","n","k">>
        Page(page_chunks) ==
            [n \in 1..Len(page_chunks) |->
                [content  |-> page_chunks[n],
                 metadata |-> MergeMetadata(metadata,
                     [page_number      |-> page_num + 1,
                      chunk_index      |-> chunk_index + n - 1,
                      chunk_size       |-> Len(page_chunks[n]),
                      page_chunk_index |-> n - 1,
                      chunks_in_page   |-> Len(page_chunks)]),
                 id |-> IF document_id.some
                        THEN document_id.v \o <<"_">> \o page_label \o ToStr(n - 1)
                        ELSE page_label \o ToStr(n - 1)]]
            \o PageLoop(self, page_texts, page_num + 1,
                        chunk_index + Len(page_chunks), metadata, document_id)
    IN  Page(IF Strip(page_text) = <<>> THEN <<>>
             ELSE _split_text_table_aware(self, page_text,
                                          _extract_table_blocks(self, page_text)))

\* lines 482-492: total_chunks and the quality metrics are written into the
\* metadata of every chunk once the list is complete
BackFill(self, all_chunks) ==
    LET BackFilled(chunk, total, quality) ==
            [chunk EXCEPT !.metadata =
                MergeMetadata(@,
                    [total_chunks       |-> total,
                     quality_score      |-> quality.quality_score,
                     sentence_count     |-> quality.sentence_count,
                     word_count         |-> quality.word_count,
                     has_table          |-> quality.has_table,
                     table_count        |-> quality.table_count,
                     has_complete_table |-> quality.has_complete_table])]
    IN  [n \in 1..Len(all_chunks) |->
            BackFilled(all_chunks[n], Len(all_chunks),
                       _get_chunk_quality_score(self, all_chunks[n].content))]

chunk_pdf_by_pages(self, page_texts, metadata, document_id) ==
    BackFill(self, PageLoop(self, page_texts, 0, 0, metadata, document_id))

(***************************************************************************)
(* enhance_text_with_temporal_context (temporal_embeddings.py:526-635) on  *)
(* text without table blocks, where no entity has a table context.         *)
(* list(set(values)) orders its elements as the interpreter's string       *)
(* hashing has it, which differs from run to run: the order is an input.   *)
(***************************************************************************)
\* the values of the entities of one type, in extraction order
ValuesOf(temporal_entities, type) ==
    LET Values(es) == [i \in 1..Len(es) |-> es[i].value]
    IN  Values(SelectSeq(temporal_entities, LAMBDA e : e.type = type))

\* normalized_dates: every date normalized, or kept when normalization fails
normalized_dates(dates, pads) ==
    LET Normalized(date, normalized) == IF normalized.some THEN normalized.v ELSE date
    IN  [i \in 1..Len(dates) |-> Normalized(dates[i], _normalize_date(dates[i], pads))]

\* normalized_month_years: YYYY-MM of the month with "-01" appended
normalized_month_years(month_years, pads) ==
    LET Normalized(month_year, normalized) ==
            IF normalized.some THEN Slice(normalized.v, 0, Min(7, Len(normalized.v)))
            ELSE month_year
    IN  [i \in 1..Len(month_years) |->
            Normalized(month_years[i],
                       _normalize_date(month_years[i] \o <<"-","0","1">>, pads))]

\* the orders list(set(values))[:limit] can come out in
Arrangements(values, limit) ==
    LET Of(S, k) == {a \in [1..k -> S] : \A i, j \in 1..k : a[i] = a[j] => i = j}
    IN  Of(Range(values), Min(Cardinality(Range(values)), limit))

\* the values list(set(...)) is taken of, by the label of their segment
ListedValues(temporal_entities, pads) ==
    [dates           |-> normalized_dates(ValuesOf(temporal_entities, "date"), pads),
     fiscal_quarters |-> ValuesOf(temporal_entities, "fiscal_quarter"),
     fiscal_years    |-> ValuesOf(temporal_entities, "fiscal_year"),
     month_years     |-> normalized_month_years(
                             ValuesOf(temporal_entities, "month_year"), pads),
     relative_dates  |-> ValuesOf(temporal_entities, "relative_date"),
     years           |-> ValuesOf(temporal_entities, "year")]

\* every way the six lists can be ordered and cut
SetOrders(listed) ==
    [dates           : Arrangements(listed.dates, 3),
     fiscal_quarters : Arrangements(listed.fiscal_quarters, 3),
     fiscal_years    : Arrangements(listed.fiscal_years, 3),
     month_years     : Arrangements(listed.month_years, 3),
     relative_dates  : Arrangements(listed.relative_dates, 2),
     years           : Arrangements(listed.years, 3)]

CommaSpace == <<","," ">>
Labelled(label, values) == <<label \o Join(values, CommaSpace)>>

\* lines 538-606: the segments of the prefix; metadata None counts as {}
temporal_context(metadata, ordered) ==
       (IF "document_date" \in DOMAIN metadata
        THEN Labelled(<<"D","o","c","u","m","e","n","t"," ","D","a","t","e",":"," ">>, <<metadata["document_date"]>>)
        ELSE <<>>)
    \o (IF "created_at" \in DOMAIN metadata
        THEN Labelled(<<"C","r","e","a","t","e","d",":"," ">>, <<metadata["created_at"]>>)
        ELSE <<>>)
    \o (IF ordered.dates # <<>>
        THEN Labelled(<<"D","a","t","e","s",":"," ">>, ordered.dates) ELSE <<>>)
    \o (IF ordered.fiscal_quarters # <<>>
        THEN Labelled(<<"F","i","s","c","a","l"," ","Q","u","a","r","t","e","r","s",":"," ">>, ordered.fiscal_quarters)
        ELSE <<>>)
    \o (IF ordered.fiscal_years # <<>>
        THEN Labelled(<<"F","i","s","c","a","l"," ","Y","e","a","r","s",":"," ">>, ordered.fiscal_years) ELSE <<>>)
    \o (IF ordered.month_years # <<>>
        THEN Labelled(<<"P","e","r","i","o","d","s",":"," ">>, ordered.month_years) ELSE <<>>)
    \o (IF ordered.relative_dates # <<>>
        THEN Labelled(<<"R","e","f","e","r","e","n","c","e","s",":"," ">>, ordered.relative_dates) ELSE <<>>)
    \o (IF /\ ordered.years # <<>> /\ ordered.dates = <<>>
           /\ ordered.month_years = <<>> /\ ordered.fiscal_years = <<>>
        THEN Labelled(<<"Y","e","a","r","s",":"," ">>, ordered.years) ELSE <<>>)

\* s.rfind(c): the greatest 0-based index where the character occurs, else -1
RFind(s, c) ==
    IF \E i \in 1..Len(s) : s[i] = c
    THEN (CHOOSE i \in 1..Len(s) : s[i] = c /\ \A j \in (i + 1)..Len(s) : s[j] # c) - 1
    ELSE -1

PrefixOpen  == <<"[","T","E","M","P","O","R","A","L","_","C","O","N","T","E","X","T",":"," ">>
PrefixClose == <<"]","\n">>
Ellipsis    == <<".",".",".">>
SegmentSeparator == <<" ","|"," ">>
max_prefix_length == 200
room_for_markers == 50

\* mutant: the cut context is kept as it is, no step back to a separator
LastCompleteItem_None(truncated_context) == truncated_context

\* lines 617-620: back to the last "|" of the cut context, if one follows its
\* first character
LastCompleteItem(truncated_context) ==
    LET Cut(last_separator) ==
            IF last_separator > 0
            THEN Strip(Slice(truncated_context, 0, last_separator))
            ELSE truncated_context
    IN  Cut(RFind(truncated_context, "|"))

\* lines 609-633: the prefix for a non-empty list of segments
ComposePrefix(segments) ==
    LET Limited(full_context) ==
            IF Len(PrefixOpen \o full_context \o PrefixClose) > max_prefix_length
            THEN PrefixOpen
                 \o LastCompleteItem(
                        Slice(full_context, 0,
                              Min(max_prefix_length - room_for_markers,
                                  Len(full_context))))
                 \o Ellipsis \o PrefixClose
            ELSE PrefixOpen \o full_context \o PrefixClose
    IN  Limited(Join(segments, SegmentSeparator))

enhance_text_with_temporal_context(text, metadata, ordered) ==
    LET Enhanced(segments) ==
            IF segments # <<>> THEN ComposePrefix(segments) \o text ELSE text
    IN  Enhanced(temporal_context(metadata, ordered))

(***************************************************************************)
(* No operation has been called yet.                                       *)
(***************************************************************************)
InitIdle == pc = "idle" /\ args = NoArgs /\ ret = NoRet

(***************************************************************************)
(* Inputs of the query-time operations: the stored documents a neighbour   *)
(* can name, the scores the index can report, query texts and filters.     *)
(***************************************************************************)
MaxNeighbors == 2

D_2024_06_15     == <<"2","0","2","4","-","0","6","-","1","5">>
D_2024_06_01     == <<"2","0","2","4","-","0","6","-","0","1">>
D_2023_01_02     == <<"2","0","2","3","-","0","1","-","0","2">>
D_Q4_2024        == <<"Q","4"," ","2","0","2","4">>
D_6_15_2024      == <<"6","/","1","5","/","2","0","2","4">>
D_2024_06_15_UTC == <<"2","0","2","4","-","0","6","-","1","5","T","0","0",":","0","0","Z">>
U_2024_07_01     == <<"2","0","2","4","-","0","7","-","0","1","T","1","0",":","3","0">>
U_2024_06_15     == <<"2","0","2","4","-","0","6","-","1","5","T","0","9",":","0","0">>
F_2024_06        == <<"2","0","2","4","-","0","6">>
F_2024           == <<"2","0","2","4">>
F_2023           == <<"2","0","2","3">>

\* document_metadata[doc_id]['metadata'] of the stored documents
DocIds == {"d1", "d2", "d3", "d4", "d5", "d6", "d7", "d8"}
document_metadata(id) ==
    CASE id = "d1" -> [k \in {"document_date", "uploaded_at"} |->
                          IF k = "document_date" THEN D_2024_06_15 ELSE U_2024_07_01]
      [] id = "d2" -> [k \in {"document_date"} |-> D_2024_06_01]
      [] id = "d3" -> [k \in {"document_date", "uploaded_at"} |->
                          IF k = "document_date" THEN D_2023_01_02 ELSE U_2024_07_01]
      [] id = "d4" -> [k \in {"uploaded_at"} |-> U_2024_06_15]
      [] id = "d5" -> [k \in {"document_date"} |-> D_Q4_2024]
      [] id = "d6" -> [k \in {"document_date"} |-> D_2024_06_15_UTC]
      [] id = "d7" -> [k \in {"document_date"} |-> D_6_15_2024]
      [] id = "d8" -> [k \in {"document_date"} |-> <<>>]

Scores == {1, 2}

\* the result records query builds from the neighbours the index returns
Result(id, score) == [id |-> id, score |-> score, metadata |-> document_metadata(id)]

ResultLists ==
    {rs \in SeqsUpTo({Result(id, s) : id \in DocIds, s \in Scores}, MaxNeighbors) :
        \A i, j \in 1..Len(rs) : i # j => rs[i].id # rs[j].id}

Q_sales          == <<"s","a","l","e","s">>
Q_latest_sales   == <<"l","a","t","e","s","t"," ","s","a","l","e","s">>
Q_sales_iso      == <<"s","a","l","e","s"," ","2","0","2","4","-","0","6","-","1","5">>
Q_latest_year    == <<"l","a","t","e","s","t"," ","2","0","2","4">>
Q_slash_then_iso == <<"6","/","1","/","2","0","2","4"," ","2","0","2","4","-","0","6","-","1","5"," ","l","a","t","e","s","t">>
Q_two_years      == <<"2","0","2","3"," ","s","a","l","e","s"," ","2","0","2","4"," ","1","9","9","9">>
Q_bad_slash      == <<"s","a","l","e","s"," ","1","3","/","4","5","/","2","0","2","4">>

QueryTexts == {Q_sales, Q_latest_sales, Q_sales_iso, Q_latest_year,
               Q_slash_then_iso, Q_two_years, Q_bad_slash}

Filters ==
    { NoFilter,
      SomeFilter(<<>>),
      SomeFilter([k \in {"document_date"} |-> F_2024_06]),
      SomeFilter([k \in {"document_date"} |-> F_2024]),
      SomeFilter([k \in {"document_date"} |-> <<>>]),
      SomeFilter([k \in {"year"} |-> F_2024]),
      SomeFilter([k \in {"document_date", "year"} |->
                     IF k = "document_date" THEN D_2024_06_15 ELSE F_2023]),
      SomeFilter([k \in {"source"} |-> F_2024]) }

(***************************************************************************)
(* The query-time operations as actions.                                   *)
(***************************************************************************)
Query ==
    /\ pc = "idle"
    /\ \E q \in QueryTexts, nb \in ResultLists, f \in Filters :
          /\ args' = [query_text |-> q, neighbors |-> nb, temporal_filter |-> f]
          /\ ret'  = query(q, nb, f, libc_pads_year)
    /\ pc' = "query"
    /\ UNCHANGED <<libc_pads_year, chunker, embedding, ingest>>

ApplyTemporalFilter ==
    /\ pc = "idle"
    /\ \E rs \in ResultLists, f \in Filters :
          /\ args' = [results |-> rs, temporal_filter |-> f]
          /\ ret'  = _apply_temporal_filter(rs, f)
    /\ pc' = "_apply_temporal_filter"
    /\ UNCHANGED <<libc_pads_year, chunker, embedding, ingest>>

ExtractTemporalFilterFromQuery ==
    /\ pc = "idle"
    /\ \E q \in QueryTexts :
          /\ args' = [query_text |-> q]
          /\ ret'  = _extract_temporal_filter_from_query(q, libc_pads_year)
    /\ pc' = "_extract_temporal_filter_from_query"
    /\ UNCHANGED <<libc_pads_year, chunker, embedding, ingest>>

SortByRecency ==
    /\ pc = "idle"
    /\ \E rs \in ResultLists :
          /\ args' = [results |-> rs]
          /\ ret'  = _sort_by_recency(rs)
    /\ pc' = "_sort_by_recency"
    /\ UNCHANGED <<libc_pads_year, chunker, embedding, ingest>>

InitQuery ==
    InitIdle /\ libc_pads_year \in BOOLEAN /\ chunker = NoChunker /\ EmbeddingUnused /\ IngestUnused
NextQuery == Query \/ ApplyTemporalFilter \/ ExtractTemporalFilterFromQuery
             \/ SortByRecency
SpecQuery == InitQuery /\ [][NextQuery]_vars

(***************************************************************************)
(* What the claims about the query-time operations say, stated without     *)
(* the operators of the model above.                                       *)
(***************************************************************************)
IsPrefixOf(p, s)    == \E k \in 0..Len(s) : SubSeq(s, 1, k) = p
IsSubstringOf(p, s) == \E i \in 1..(Len(s) + 1), j \in 0..Len(s) : SubSeq(s, i, j) = p

DocDateOf(r) == IF "document_date" \in DOMAIN r.metadata
                THEN r.metadata["document_date"] ELSE <<>>

\* result r passes the criteria of the dict f
Passes(r, f) ==
    IF "document_date" \in DOMAIN f THEN IsPrefixOf(f["document_date"], DocDateOf(r))
    ELSE IF "year" \in DOMAIN f THEN IsSubstringOf(f["year"], DocDateOf(r))
    ELSE TRUE

PositionIn(rs, r) == CHOOSE i \in 1..Len(rs) : rs[i] = r

\* out lists elements of rs, each at most once, in the order they have in rs
InInputOrder(out, rs) ==
    /\ \A i \in 1..Len(out) : out[i] \in Range(rs)
    /\ \A i, j \in 1..Len(out) :
          i < j => PositionIn(rs, out[i]) < PositionIn(rs, out[j])

DescendingByScore(rs) ==
    \A i, j \in 1..Len(rs) : i < j => rs[i].score >= rs[j].score

DescendingByDateKey(rs) ==
    \A i, j \in 1..Len(rs) :
        i < j => ~DateTimeGt(get_date_key(rs[j]).t, get_date_key(rs[i]).t)

\* C4: _apply_temporal_filter returns exactly the results, in input order, whose
\* document_date starts with the filter's document_date (or contains the filter's
\* year when there is only a year key); a result without document_date counts as
\* the empty string; an empty or absent filter returns the input unchanged.
C4_FilterExact ==
    pc = "_apply_temporal_filter" =>
        LET rs == args.results
            tf == args.temporal_filter
        IN  IF ~tf.some \/ DOMAIN tf.f = {} THEN ret = rs
            ELSE ("document_date" \in DOMAIN tf.f \/ "year" \in DOMAIN tf.f) =>
                    /\ Range(ret) = {r \in Range(rs) : Passes(r, tf.f)}
                    /\ InInputOrder(ret, rs)

C4_Witness ==
    /\ pc = "_apply_temporal_filter"
    /\ args.temporal_filter.some
    /\ "document_date" \in DOMAIN args.temporal_filter.f
    /\ Len(args.results) = 2 /\ Len(ret) = 1
    /\ ret[1] = args.results[2]

\* C5: query returns its results in descending score order when the query text
\* shows no temporal intent, and in descending order of the date key when it
\* does (the recency sort is the last step); in both cases the results are
\* exactly the neighbours that pass the filter that was applied.
C5_QueryOrder ==
    (pc = "query" /\ ~ret.raised) =>
        /\ (~_detect_temporal_intent(args.query_text) => DescendingByScore(ret.results))
        /\ (_detect_temporal_intent(args.query_text) => DescendingByDateKey(ret.results))
        /\ Range(ret.results) =
              {r \in Range(args.neighbors) :
                  ret.temporal_filter_applied => Passes(r, ret.temporal_filter.f)}

C5_Witness ==
    /\ pc = "query" /\ ~ret.raised
    /\ _detect_temporal_intent(args.query_text)
    /\ ret.temporal_filter_applied
    /\ Len(args.neighbors) = 2 /\ Len(ret.results) = 2
    /\ ret.results[1].score < ret.results[2].score
    /\ DateTimeGt(get_date_key(ret.results[1]).t, get_date_key(ret.results[2]).t)

\* C6 as claimed: whenever the caller supplies a temporal_filter, that filter
\* alone decides which results survive.
C6_SuppliedFilterAlone ==
    (pc = "query" /\ ~ret.raised /\ args.temporal_filter.some) =>
        Range(ret.results) =
            {r \in Range(args.neighbors) : Passes(r, args.temporal_filter.f)}

\* C6 as amended: whenever the caller supplies a non-empty temporal_filter, that
\* filter alone decides which results survive and is the filter reported; a
\* filter extracted from the query text is applied only when the caller supplied
\* no filter or an empty one.
C6_NonEmptyFilterAlone ==
    (pc = "query" /\ ~ret.raised) =>
        /\ (args.temporal_filter.some /\ DOMAIN args.temporal_filter.f # {}) =>
              /\ Range(ret.results) =
                    {r \in Range(args.neighbors) : Passes(r, args.temporal_filter.f)}
              /\ ret.temporal_filter = args.temporal_filter
        /\ (ret.temporal_filter_applied /\ ret.temporal_filter # args.temporal_filter) =>
              (~args.temporal_filter.some \/ DOMAIN args.temporal_filter.f = {})

C6_Witness ==
    /\ pc = "query" /\ ~ret.raised
    /\ args.temporal_filter.some /\ "year" \in DOMAIN args.temporal_filter.f
    /\ "document_date" \notin DOMAIN args.temporal_filter.f
    /\ extract_temporal_info(args.query_text) # <<>>
    /\ Len(args.neighbors) = 2 /\ Len(ret.results) = 1

\* C9: _extract_temporal_filter_from_query returns at most one criterion: with a
\* date entity, document_date = the normalized first date entity (its raw text
\* when normalization fails) and no year key; else with a year entity, year = the
\* largest year found; else None.
C9_OneCriterion ==
    pc = "_extract_temporal_filter_from_query" =>
        LET es      == extract_temporal_info(args.query_text)
            dateIdx == {i \in 1..Len(es) : es[i].type = "date"}
            yearIdx == {i \in 1..Len(es) : es[i].type = "year"}
        IN  IF dateIdx # {}
            THEN LET first == es[CHOOSE i \in dateIdx : \A j \in dateIdx : i <= j]
                     norm  == _normalize_date(first.value, libc_pads_year)
                 IN  /\ ret.some /\ DOMAIN ret.f = {"document_date"}
                     /\ ret.f["document_date"] = IF norm.some THEN norm.v ELSE first.value
            ELSE IF yearIdx # {}
            THEN /\ ret.some /\ DOMAIN ret.f = {"year"}
                 /\ \E i \in yearIdx : es[i].value = ret.f["year"]
                 /\ \A i \in yearIdx : ToInt(es[i].value) <= ToInt(ret.f["year"])
            ELSE ret = NoFilter

C9_Witness ==
    /\ pc = "_extract_temporal_filter_from_query"
    /\ ret.some /\ "year" \in DOMAIN ret.f
    /\ Len(extract_temporal_info(args.query_text)) = 3
    /\ extract_temporal_info(args.query_text)[1].value # ret.f["year"]

\* C10: _sort_by_recency never raises, whatever the document_date and uploaded_at
\* values are, and returns the input ordered by its date key, most recent first.
C10_NeverRaises ==
    pc = "_sort_by_recency" =>
        /\ ~ret.raised
        /\ DescendingByDateKey(ret.results)
        /\ Range(ret.results) = Range(args.results)
(***************************************************************************)
(* Inputs of the date operations.  A date string is three numeric parts    *)
(* joined by one separator; a filename is up to MaxNameParts parts joined  *)
(* by "_", with or without an extension.                                   *)
(***************************************************************************)
MaxNameParts == 2

DateParts == { <<"2","0","2","4">>, <<"0","0","2","4">>, <<"0","0","0","0">>,
               <<"2","4">>, <<"0","2">>, <<"6">>, <<"1","3">>, <<"3","0">>,
               <<"4","5">> }
DateSeps  == { <<"-">>, <<"/">> }
DateStrings ==
    {<<>>} \cup {a \o s \o b \o s \o c : a \in DateParts, b \in DateParts,
                                         c \in DateParts, s \in DateSeps}

P_Report == <<"R","e","p","o","r","t">>
P_2024_08_27 == <<"2","0","2","4","-","0","8","-","2","7">>
P_1234_56_78 == <<"1","2","3","4","-","5","6","-","7","8">>
P_20240827 == <<"2","0","2","4","0","8","2","7">>
P_08_27_2024 == <<"0","8","-","2","7","-","2","0","2","4">>
P_January_28TH_2025 == <<"J","a","n","u","a","r","y"," ","2","8","T","H",",","2","0","2","5">>
P_Aug_27_2024 == <<"A","u","g","."," ","2","7",","," ","2","0","2","4">>
P_7th_of_January_2025 == <<"7","t","h"," ","o","f"," ","J","a","n","u","a","r","y",","," ","2","0","2","5">>
P_Q4_2024 == <<"Q","4","_","2","0","2","4">>
P_Q1FY23 == <<"Q","1","F","Y","2","3">>
P_2023Q1 == <<"2","0","2","3","Q","1">>
P_first_quarter_2023 == <<"f","i","r","s","t","_","q","u","a","r","t","e","r","_","2","0","2","3">>
P_Jan2023 == <<"J","a","n","2","0","2","3">>
P_2023_13 == <<"2","0","2","3","-","1","3">>
P_2023_05 == <<"2","0","2","3","-","0","5">>
P_Fiscal_Year_2023 == <<"F","i","s","c","a","l","_","Y","e","a","r","_","2","0","2","3">>
P_FY23 == <<"F","Y","2","3">>
P_1850 == <<"1","8","5","0">>

NameParts ==
    { P_Report,
      P_2024_08_27,
      P_1234_56_78,
      P_20240827,
      P_08_27_2024,
      P_January_28TH_2025,
      P_Aug_27_2024,
      P_7th_of_January_2025,
      P_Q4_2024,
      P_Q1FY23,
      P_2023Q1,
      P_first_quarter_2023,
      P_Jan2023,
      P_2023_13,
      P_2023_05,
      P_Fiscal_Year_2023,
      P_FY23,
      P_1850 }

Extensions == { <<>>, <<".","p","d","f">> }
Filenames ==
    {Join(ps, <<"_">>) \o e : ps \in SeqsUpTo(NameParts, MaxNameParts),
                              e \in Extensions}

(***************************************************************************)
(* The date operations as actions.                                         *)
(***************************************************************************)
NormalizeDate ==
    /\ pc = "idle"
    /\ \E x \in DateStrings :
          /\ args' = [date_string |-> x]
          /\ ret'  = _normalize_date(x, libc_pads_year)
    /\ pc' = "_normalize_date"
    /\ UNCHANGED <<libc_pads_year, chunker, embedding, ingest>>

ExtractDateFromFilename ==
    /\ pc = "idle"
    /\ \E f \in Filenames :
          /\ args' = [filename |-> f]
          /\ ret'  = extract_date_from_filename(f)
    /\ pc' = "extract_date_from_filename"
    /\ UNCHANGED <<libc_pads_year, chunker, embedding, ingest>>

InitDate ==
    InitIdle /\ libc_pads_year \in BOOLEAN /\ chunker = NoChunker /\ EmbeddingUnused /\ IngestUnused
NextDate == NormalizeDate \/ ExtractDateFromFilename
SpecDate == InitDate /\ [][NextDate]_vars

(***************************************************************************)
(* What the claims about the date operations say.                          *)
(***************************************************************************)
\* s[i..i+9] is dddd-dd-dd with the year in 1900..2100, the month in 1..12
\* and the day in 1..31, and no digit on either side
ValidIsoDateAt(s, i) ==
    /\ i + 9 <= Len(s)
    /\ IsIsoShape(SubSeq(s, i, i + 9))
    /\ (i = 1 \/ s[i - 1] \notin Digits)
    /\ (i + 9 = Len(s) \/ s[i + 10] \notin Digits)
    /\ LET y == ToInt(SubSeq(s, i, i + 3))
           m == ToInt(SubSeq(s, i + 5, i + 6))
           d == ToInt(SubSeq(s, i + 8, i + 9))
       IN  1900 <= y /\ y <= 2100 /\ 1 <= m /\ m <= 12 /\ 1 <= d /\ d <= 31

ContainsValidIsoDate(s) == \E i \in 1..Len(s) : ValidIsoDateAt(s, i)

\* s holds 19dd or 20dd with no digit on either side
ContainsStandaloneYear(s) ==
    \E i \in 1..(Len(s) - 3) :
        /\ SubSeq(s, i, i + 1) \in {<<"1","9">>, <<"2","0">>}
        /\ s[i + 2] \in Digits /\ s[i + 3] \in Digits
        /\ (i = 1 \/ s[i - 1] \notin Digits)
        /\ (i + 3 = Len(s) \/ s[i + 4] \notin Digits)

\* the part of a filename before its last "."
Stem(f) == IF \E i \in 1..Len(f) : f[i] = "."
           THEN SubSeq(f, 1, (CHOOSE i \in 1..Len(f) :
                                 f[i] = "." /\ \A j \in (i + 1)..Len(f) : f[j] # ".") - 1)
           ELSE f

(* C7: extract_date_from_filename returns the highest-priority granularity *)
(* present in the name: a name that contains a range-valid full date       *)
(* (here: dddd-dd-dd with year 1900..2100, month 1..12, day 1..31) yields  *)
(* a full date, never a quarter, month-year or year, and None is returned  *)
(* only when no granularity matches (here: no full date and no standalone  *)
(* 19dd/20dd year in the name).                                            *)
C7_HighestGranularity ==
    pc = "extract_date_from_filename" =>
        /\ ContainsValidIsoDate(Stem(args.filename)) =>
               ret.some /\ IsIsoShape(ret.v)
        /\ ~ret.some =>
               /\ ~ContainsValidIsoDate(Stem(args.filename))
               /\ ~ContainsStandaloneYear(Stem(args.filename))

(* C8: _normalize_date is idempotent on its own results, and returns every *)
(* string of the shape dddd-dd-dd unchanged.                               *)
C8_IdempotentIsoFixed ==
    pc = "_normalize_date" =>
        /\ ret.some => _normalize_date(ret.v, libc_pads_year) = ret
        /\ IsIsoShape(args.date_string) => ret = Some(args.date_string)

(***************************************************************************)
(* Inputs of the chunker.  A text is up to MaxWords words, a document up   *)
(* to MaxPages pages.  W_Table1 is a table block _extract_table_blocks     *)
(* accepts, W_Table2 one it rejects (fewer than 5 characters inside),      *)
(* W_Mention prose that holds the text "[TABLE" and ends in blanks,        *)
(* W_Long a run no separator splits, W_Blanks a paragraph of blanks.        *)
(***************************************************************************)
MaxWords == 3
MaxPages == 2

W_Table1 ==
    <<"[","T","A","B","L","E"," ","1","]","a","b","c","d","e","[","E","N","D"," ","T","A","B","L","E","]">>
W_Table2 ==
    <<"[","T","A","B","L","E"," ","2","]","a","b","[","E","N","D"," ","T","A","B","L","E","]">>
W_Mention ==
    <<"p","[","T","A","B","L","E"," "," "," "," "," "," "," "," "," ">>
W_Para ==
    <<"\n","\n","k","k","k","k","k","k","k","k","k","k","k","k","k","k","k">>
W_Sentence ==
    <<"N","o","t","e","."," ">>
W_Long ==
    <<"m","m","m","m","m","m","m","m","m","m","m","m","m","m","m","m","m","m","m","m","m","m","m","m","m","m","m","m","m","m","m","m","m","m","m","m","m","m","m","m">>

W_Blanks ==
    <<"\n","\n"," "," "," "," "," "," "," "," ">>
W_BigTable ==
    <<"[","T","A","B","L","E"," ","3","]">> \o [i \in 1..45 |-> "x"]
        \o <<"[","E","N","D"," ","T","A","B","L","E","]">>

Words ==
    { W_Table1, W_Table2, W_Mention, W_Para, W_Sentence, W_Long, W_Blanks, W_BigTable }

RECURSIVE Concat(_)
Concat(ws) == IF ws = <<>> THEN <<>> ELSE ws[1] \o Concat(Tail(ws))

Texts == {Concat(ws) : ws \in SeqsUpTo(Words, MaxWords)}

W_Prose ==
    <<"O","n","e",","," ","t","w","o",";"," ","t","h","r","e","e","."," ","F","o","u","r"," ","f","i","v","e"," ","s","i","x",".">>

PageTexts ==
    { <<" ", " ">>, W_Table1, W_Sentence \o W_Table2,
      W_Table1 \o W_Mention \o W_Para, W_Long, W_Prose }

Chunkers ==
    { [chunk_size |-> 32, chunk_overlap |-> 25],
      [chunk_size |-> 32, chunk_overlap |-> 8],
      [chunk_size |-> 12, chunk_overlap |-> 3] }

NoMetadata == <<>>
M_Title == [k \in {"title"} |-> <<"r">>]
M_TitleAndIndex ==
    [k \in {"title", "chunk_index"} |-> IF k = "title" THEN <<"r">> ELSE 7]

\* (metadata, document_id) of a call
Callers ==
    { [metadata |-> NoMetadata, document_id |-> None],
      [metadata |-> M_Title, document_id |-> Some(<<"d">>)],
      [metadata |-> M_TitleAndIndex, document_id |-> Some(<<"d">>)] }

(***************************************************************************)
(* The chunker's operations as actions.                                    *)
(***************************************************************************)
ChunkText ==
    /\ pc = "idle"
    /\ \E text \in Texts, c \in Callers :
          /\ args' = [text |-> text, metadata |-> c.metadata,
                      document_id |-> c.document_id]
          /\ ret'  = chunk_text(chunker, text, c.metadata, c.document_id)
    /\ pc' = "chunk_text"
    /\ UNCHANGED <<libc_pads_year, chunker, embedding, ingest>>

ChunkPdfByPages ==
    /\ pc = "idle"
    /\ \E page_texts \in SeqsUpTo(PageTexts, MaxPages), c \in Callers :
          /\ args' = [page_texts |-> page_texts, metadata |-> c.metadata,
                      document_id |-> c.document_id]
          /\ ret'  = chunk_pdf_by_pages(chunker, page_texts, c.metadata,
                                        c.document_id)
    /\ pc' = "chunk_pdf_by_pages"
    /\ UNCHANGED <<libc_pads_year, chunker, embedding, ingest>>

GetChunkQualityScore ==
    /\ pc = "idle"
    /\ \E chunk \in Texts :
          /\ args' = [chunk |-> chunk]
          /\ ret'  = _get_chunk_quality_score(chunker, chunk)
    /\ pc' = "_get_chunk_quality_score"
    /\ UNCHANGED <<libc_pads_year, chunker, embedding, ingest>>

\* the chunker does not format dates: libc_pads_year plays no part here
InitChunk ==
    InitIdle /\ libc_pads_year = TRUE /\ chunker \in Chunkers /\ EmbeddingUnused /\ IngestUnused
NextChunk == ChunkText \/ ChunkPdfByPages \/ GetChunkQualityScore
SpecChunk == InitChunk /\ [][NextChunk]_vars

(***************************************************************************)
(* What the claims about the chunker say.                                  *)
(***************************************************************************)
\* the accepted table blocks of a text whose content occurs once among them
SingleBlocks(text) ==
    LET bs == _extract_table_blocks(chunker, text)
    IN  {bs[k] : k \in {k \in 1..Len(bs) :
                           \A l \in 1..Len(bs) : bs[l].content = bs[k].content => l = k}}

\* every such block is whole in one of the chunks, and no other chunk holds
\* the text between its markers
TablesIntact(text, contents) ==
    \A b \in SingleBlocks(text) :
        \E i \in 1..Len(contents) :
            /\ IsSubstringOf(b.content, contents[i])
            /\ \A j \in 1..Len(contents) :
                   j # i => ~IsSubstringOf(b.table_text, contents[j])

Contents(chunks) == [i \in 1..Len(chunks) |-> chunks[i].content]

\* the chunks of page p, in order
RECURSIVE OfPage(_, _)
OfPage(chunks, p) ==
    IF chunks = <<>> THEN <<>>
    ELSE (IF chunks[1].metadata["page_number"] = p THEN <<chunks[1]>> ELSE <<>>)
         \o OfPage(Tail(chunks), p)

(* C1: every table block [TABLE n]...[END TABLE] that _extract_table_blocks *)
(* accepts occurs whole in exactly one chunk returned by chunk_text (for a  *)
(* page: by chunk_pdf_by_pages), and no other chunk contains any part of    *)
(* it, whatever chunk_size and chunk_overlap < chunk_size are.              *)
C1_TablesIntact ==
    /\ pc = "chunk_text" => TablesIntact(args.text, Contents(ret))
    /\ pc = "chunk_pdf_by_pages" =>
           \A p \in 1..Len(args.page_texts) :
               TablesIntact(args.page_texts[p], Contents(OfPage(ret, p)))

(* C2: the quality score of every chunk, as returned by                     *)
(* _get_chunk_quality_score and as stored in the chunk metadata by          *)
(* chunk_text and chunk_pdf_by_pages, lies in 0.0 .. 1.0 (0 .. 100          *)
(* hundredths).                                                             *)
C2_ScoreInUnitInterval ==
    /\ pc = "_get_chunk_quality_score" =>
           0 <= ret.quality_score /\ ret.quality_score <= 100
    /\ pc \in {"chunk_text", "chunk_pdf_by_pages"} =>
           \A i \in 1..Len(ret) :
               /\ 0 <= ret[i].metadata["quality_score"]
               /\ ret[i].metadata["quality_score"] <= 100

\* the metadata keys the two operations set per chunk
ChunkLocalFields ==
    { "chunk_index", "total_chunks", "chunk_size", "is_first_chunk",
      "is_last_chunk", "quality_score", "sentence_count", "word_count",
      "has_table", "table_count", "has_complete_table", "page_number",
      "page_chunk_index", "chunks_in_page" }

(* C3: in the chunks of one call of chunk_text or chunk_pdf_by_pages with   *)
(* metadata M, every key of M that is not a chunk-local field has the value *)
(* it has in M, and chunk_index is strictly increasing in list order.       *)
C3_MetadataConsistent ==
    pc \in {"chunk_text", "chunk_pdf_by_pages"} =>
        /\ \A i \in 1..Len(ret) :
               \A k \in DOMAIN args.metadata \ ChunkLocalFields :
                   /\ k \in DOMAIN ret[i].metadata
                   /\ ret[i].metadata[k] = args.metadata[k]
        /\ \A i \in 1..Len(ret) : \A j \in 1..Len(ret) :
               i < j => ret[i].metadata["chunk_index"] < ret[j].metadata["chunk_index"]

\* a document of two non-blank pages and at least three chunks, chunked with
\* metadata that holds a document key and a key named chunk_index
C3_Witness ==
    /\ pc = "chunk_pdf_by_pages"
    /\ args.metadata = M_TitleAndIndex
    /\ Len(ret) >= 3
    /\ ret[1].metadata["page_number"] # ret[Len(ret)].metadata["page_number"]
    /\ ret[1].metadata["title"] = <<"r">>

(***************************************************************************)
(* The embedding calls of TemporalEmbeddingHandler                         *)
(* (temporal_embeddings.py:637-793).  Time is counted in ticks of half a   *)
(* second.  It passes while the process sleeps, for as long as the sleep   *)
(* was asked to last, and from the start of an API attempt to the next     *)
(* thing the process does, in the same call or in the next one, for a      *)
(* time the model chooses.  An API attempt starts when _rate_limit has     *)
(* returned.                                                               *)
(***************************************************************************)
Seconds(n) == 2 * n

RequestsPerMinute == {30, 60}

\* __init__: min_delay = 60.0 / requests_per_minute, last_request_time = 0
Handler(requests_per_minute) ==
    [requests_per_minute |-> requests_per_minute,
     min_delay           |-> Seconds(60) \div requests_per_minute,
     last_request_time   |-> 0]

E_429        == <<"4","2","9"," ","T","o","o"," ","M","a","n","y"," ","R","e","q","u","e","s","t","s">>
E_Quota      == <<"Q","u","o","t","a"," ","e","x","c","e","e","d","e","d"," ","f","o","r"," ","e","m","b","e","d"," ","r","e","q","u","e","s","t","s">>
E_RateLimit  == <<"R","a","t","e"," ","L","i","m","i","t"," ","r","e","a","c","h","e","d">>
E_500        == <<"5","0","0"," ","I","n","t","e","r","n","a","l"," ","e","r","r","o","r">>
ErrorMessages == {E_429, E_Quota, E_RateLimit, E_500}

\* mutant: every error is taken for a quota error
IsQuotaError_Always(e) == TRUE

\* 'quota' in error_msg or 'rate limit' in error_msg or '429' in error_msg
IsQuotaError(e) ==
    LET Test(error_msg) ==
            \/ Contains(error_msg, <<"q","u","o","t","a">>)
            \/ Contains(error_msg, <<"r","a","t","e"," ","l","i","m","i","t">>)
            \/ Contains(error_msg, <<"4","2","9">>)
    IN  Test(ToLower(e))

\* mutant: 2 * attempt in place of 2 ** attempt
Pow2_Linear(k) == 2 * k

\* 2 ** attempt
RECURSIVE Pow2(_)
Pow2(k) == IF k = 0 THEN 1 ELSE 2 * Pow2(k - 1)

batch_size == 5
default_max_retries == 3

\* range(0, len(enhanced_texts), batch_size): the number of batches
total_batches(n) == (n + batch_size - 1) \div batch_size

\* what the API returns for one request
Response(seq, batch_num, attempt) ==
    [call |-> seq, batch_num |-> batch_num, attempt |-> attempt]

\* mutant: _rate_limit never sleeps
sleep_time_Never(h, current_time) == 0

\* the sleep of _rate_limit for the present clock
sleep_time(h, current_time) ==
    LET time_since_last_request == current_time - h.last_request_time
    IN  IF time_since_last_request < h.min_delay
        THEN h.min_delay - time_since_last_request
        ELSE 0

MaxRetries == 3
MaxTexts == 6
MaxDelay == 1
MaxCalls == 2

Delays == 0..MaxDelay

NextSeq == IF call = NoCall THEN 1 ELSE call.seq + 1

\* a call enters the loop of _call_embed_api_with_retry; with no iteration to
\* run the loop falls through and the function returns None
EnterRetryLoop(op, max_retries, batches) ==
    /\ pc \in {"idle", "returned", "raised"}
    /\ NextSeq <= MaxCalls
    /\ call' = [seq |-> NextSeq, op |-> op, max_retries |-> max_retries,
                attempt |-> 0, batch_num |-> 1, total_batches |-> batches,
                events |-> <<>>, responses |-> <<>>]
    /\ args' = [op |-> op, max_retries |-> max_retries, batches |-> batches]
    /\ IF batches = 0
       THEN pc' = "returned" /\ ret' = Some(<<>>)
       ELSE IF max_retries = 0
       THEN pc' = "returned" /\ ret' = None
       ELSE pc' = "rate_limit" /\ ret' = NoRet
    /\ UNCHANGED <<libc_pads_year, chunker, handler, clock, attempts, ingest>>

\* _call_embed_api_with_retry(contents, max_retries) called directly
CallEmbedApiWithRetry ==
    \E max_retries \in 0..MaxRetries :
        EnterRetryLoop("_call_embed_api_with_retry", max_retries, 1)

\* generate_embedding: one request with the default max_retries
GenerateEmbedding ==
    EnterRetryLoop("generate_embedding", default_max_retries, 1)

\* generate_batch_embeddings: one request per batch of batch_size texts
GenerateBatchEmbeddings ==
    \E n \in 0..MaxTexts :
        EnterRetryLoop("generate_batch_embeddings", default_max_retries,
                       total_batches(n))

\* _rate_limit, then the API request goes out
RateLimit ==
    /\ pc = "rate_limit"
    /\ LET woke == clock + sleep_time(handler, clock)
       IN  /\ clock' = woke
           /\ handler' = [handler EXCEPT !.last_request_time = woke]
           /\ attempts' = IF attempts = <<>> THEN <<woke>>
                          ELSE <<attempts[Len(attempts)], woke>>
    /\ pc' = "api"
    /\ UNCHANGED <<args, ret, libc_pads_year, chunker, call, ingest>>

\* embed_content returns: the response is returned, and generate_batch_embeddings
\* goes on to its next batch with a new call of _call_embed_api_with_retry
ApiReturns ==
    /\ pc = "api"
    /\ \E latency \in Delays : clock' = clock + latency
    /\ LET response  == Response(call.seq, call.batch_num, call.attempt)
           event     == [kind |-> "attempt", attempt |-> call.attempt,
                         ok |-> TRUE, v |-> response]
           responses == Append(call.responses, response)
       IN  IF call.batch_num < call.total_batches
           THEN /\ call' = [call EXCEPT !.events = <<>>, !.attempt = 0,
                                        !.batch_num = @ + 1,
                                        !.responses = responses]
                /\ pc' = "rate_limit"
                /\ ret' = NoRet
           ELSE /\ call' = [call EXCEPT !.events = Append(@, event),
                                        !.responses = responses]
                /\ pc' = "returned"
                /\ ret' = IF call.op = "generate_batch_embeddings"
                          THEN Some(responses) ELSE Some(response)
    /\ UNCHANGED <<args, libc_pads_year, chunker, handler, attempts, ingest>>

\* embed_content raises: a quota error before the last attempt leads to the
\* backoff sleep, any other error is raised to the caller
ApiRaises ==
    /\ pc = "api"
    /\ \E latency \in Delays : clock' = clock + latency
    /\ \E e \in ErrorMessages :
          LET event == [kind |-> "attempt", attempt |-> call.attempt,
                        ok |-> FALSE, v |-> e]
          IN  /\ call' = [call EXCEPT !.events = Append(@, event)]
              /\ IF IsQuotaError(e) /\ call.attempt < call.max_retries - 1
                 THEN pc' = "backoff" /\ ret' = NoRet
                 ELSE pc' = "raised" /\ ret' = [raised |-> e]
    /\ UNCHANGED <<args, libc_pads_year, chunker, handler, attempts, ingest>>

\* time.sleep(2 ** attempt); continue
Backoff ==
    /\ pc = "backoff"
    /\ clock' = clock + Seconds(Pow2(call.attempt))
    /\ call' = [call EXCEPT !.events =
                   Append(@, [kind |-> "backoff", wait_time |-> Pow2(call.attempt)]),
                            !.attempt = @ + 1]
    /\ pc' = "rate_limit"
    /\ UNCHANGED <<args, ret, libc_pads_year, chunker, handler, attempts, ingest>>

InitEmbed ==
    /\ InitIdle /\ libc_pads_year = TRUE /\ chunker = NoChunker
    /\ handler \in {Handler(rpm) : rpm \in RequestsPerMinute}
    /\ clock = Seconds(60)
    /\ call = NoCall
    /\ attempts = <<>>
    /\ IngestUnused
NextEmbed ==
    \/ CallEmbedApiWithRetry \/ GenerateEmbedding \/ GenerateBatchEmbeddings
    \/ RateLimit \/ ApiReturns \/ ApiRaises \/ Backoff
SpecEmbed == InitEmbed /\ [][NextEmbed]_vars

\* a sleep ends and the API answers every request
SpecEmbedFair ==
    /\ SpecEmbed
    /\ WF_vars(RateLimit) /\ WF_vars(ApiReturns \/ ApiRaises) /\ WF_vars(Backoff)

(***************************************************************************)
(* What the claims say about the embedding calls.                          *)
(***************************************************************************)
InCall == pc \in {"rate_limit", "api", "backoff"}
Ended  == pc \in {"returned", "raised"}

\* the message of an error the spec calls a quota error
QuotaMessage(e) ==
    \/ IsSubstringOf(<<"q","u","o","t","a">>, ToLower(e))
    \/ IsSubstringOf(<<"r","a","t","e"," ","l","i","m","i","t">>, ToLower(e))
    \/ IsSubstringOf(<<"4","2","9">>, ToLower(e))

FailedAttempt(x) == x.kind = "attempt" /\ ~x.ok
LastEvent == call.events[Len(call.events)]

\* the API attempts the present call of _call_embed_api_with_retry has started
AttemptsStarted ==
    IF call = NoCall \/ call.total_batches = 0 \/ call.max_retries = 0 THEN 0
    ELSE IF pc = "rate_limit" THEN call.attempt
    ELSE call.attempt + 1

RetryContract ==
    call # NoCall =>
    LET ev == call.events
    IN  /\ AttemptsStarted <= call.max_retries
        \* the response of the first successful attempt is returned
        /\ pc = "returned" /\ ev # <<>> =>
               /\ LastEvent.kind = "attempt" /\ LastEvent.ok
               /\ \A i \in 1..(Len(ev) - 1) : ev[i].kind = "attempt" => ~ev[i].ok
               /\ call.op # "generate_batch_embeddings" => ret = Some(LastEvent.v)
        \* a quota error before the last attempt: wait 2^k seconds, try again
        /\ \A i \in 1..Len(ev) :
               FailedAttempt(ev[i]) /\ QuotaMessage(ev[i].v)
                                   /\ ev[i].attempt < call.max_retries - 1 =>
                  /\ i = Len(ev) => pc = "backoff"
                  /\ i < Len(ev) =>
                        /\ ev[i + 1].kind = "backoff"
                        /\ ev[i + 1].wait_time = 2 ^ ev[i].attempt
                        /\ i + 1 = Len(ev) =>
                              /\ pc \in {"rate_limit", "api"}
                              /\ call.attempt = ev[i].attempt + 1
                        /\ i + 1 < Len(ev) =>
                              /\ ev[i + 2].kind = "attempt"
                              /\ ev[i + 2].attempt = ev[i].attempt + 1
        \* a quota error of the last attempt is raised
        /\ ev # <<>> /\ FailedAttempt(LastEvent) /\ QuotaMessage(LastEvent.v)
                     /\ LastEvent.attempt = call.max_retries - 1 =>
               pc = "raised" /\ ret = [raised |-> LastEvent.v]

\* C11: a call of _call_embed_api_with_retry makes at most max_retries API
\* attempts and ends; it returns the response of the first successful attempt,
\* waits 2^k seconds and tries again after a quota error of attempt k that is
\* not the last one, and raises a quota error of the last attempt
C11_BoundedRetry ==
    /\ [](RetryContract)
    /\ [][pc = "backoff" => clock' >= clock + Seconds(2 ^ call.attempt)]_vars
    /\ (InCall ~> Ended)

\* a call that was retried twice with growing waits and then raised the quota
\* error of its last attempt
C11_Witness ==
    /\ pc = "raised" /\ call.max_retries = 3 /\ Len(call.events) = 5
    /\ call.events[2].kind = "backoff" /\ call.events[2].wait_time = 1
    /\ call.events[4].kind = "backoff" /\ call.events[4].wait_time = 2
    /\ QuotaMessage(LastEvent.v) /\ ret = [raised |-> LastEvent.v]

\* C12: an error that is not a quota error is raised at once, whatever the
\* attempt: no backoff and no further API attempt follows in that call
C12_OtherErrorsRaisedAtOnce ==
    call # NoCall =>
    \A i \in 1..Len(call.events) :
        FailedAttempt(call.events[i]) /\ ~QuotaMessage(call.events[i].v) =>
            /\ i = Len(call.events)
            /\ pc = "raised"
            /\ ret = [raised |-> call.events[i].v]
            /\ AttemptsStarted = call.events[i].attempt + 1

\* an error that is not a quota error, raised by the second attempt
C12_Witness ==
    /\ pc = "raised" /\ Len(call.events) = 3
    /\ FailedAttempt(LastEvent) /\ ~QuotaMessage(LastEvent.v)
    /\ LastEvent.attempt = 1

\* C13: _rate_limit runs before every API attempt, so two consecutive
\* attempts of one handler start at least min_delay apart
C13_MinDelayBetweenAttempts ==
    /\ pc = "api" =>
          /\ attempts # <<>>
          /\ attempts[Len(attempts)] = handler.last_request_time
    /\ Len(attempts) = 2 => attempts[2] - attempts[1] >= handler.min_delay

\* the first attempt of a second call starts exactly min_delay after the
\* last attempt of the first call
C13_Witness ==
    /\ pc = "api" /\ call.seq = 2 /\ call.attempt = 0 /\ call.batch_num = 1
    /\ Len(attempts) = 2
    /\ attempts[2] - attempts[1] = handler.min_delay
    /\ handler.min_delay > 1

(***************************************************************************)
(* enhance_text_with_temporal_context as an action.                        *)
(***************************************************************************)
MaxValueLength == 170

\* a string of n characters that holds no blank and no "|"
Filler(n) == [i \in 1..n |-> "x"]

T_NoDates   == <<"t","o","t","a","l"," ","s","a","l","e","s">>
T_TwoDates  == <<"2","0","2","4","-","0","6","-","1","5"," ","a","n","d"," ","6","/","1","/","2","0","2","4">>
T_SameDate  == <<"2","0","2","4","-","0","6","-","0","1"," ","a","n","d"," ","6","/","1","/","2","0","2","4">>
T_FourYears == <<"1","9","9","9"," ","2","0","2","3"," ","2","0","2","4"," ","2","0","2","5">>
EnhanceTexts == {<<>>, T_NoDates, T_TwoDates, T_SameDate, T_FourYears}

V_Date      == <<"2","0","2","4","-","0","6","-","3","0">>
V_Timestamp == <<"2","0","2","4","-","0","7","-","0","1","T","0","9",":","3","0",":","0","0">>
V_Piped     == <<"2","0","2","4","|">> \o Filler(MaxValueLength)

\* document_date and created_at are strings the caller supplies
DocumentDates == {V_Date, Filler(MaxValueLength - 50), Filler(MaxValueLength),
                  V_Piped}
CreatedAts    == {V_Timestamp, Filler(MaxValueLength - 50), Filler(MaxValueLength)}

EnhanceMetadata ==
    {NoMetadata}
    \cup {[k \in {"document_date"} |-> d] : d \in DocumentDates}
    \cup {[k \in {"created_at"} |-> c] : c \in CreatedAts}
    \cup {[k \in {"document_date", "created_at"} |->
              IF k = "document_date" THEN d ELSE c] :
          d \in DocumentDates, c \in CreatedAts}

EnhanceTextWithTemporalContext ==
    /\ pc = "idle"
    /\ \E text \in EnhanceTexts, metadata \in EnhanceMetadata :
          \E ordered \in SetOrders(ListedValues(extract_temporal_info(text),
                                                libc_pads_year)) :
             /\ args' = [text |-> text, metadata |-> metadata, ordered |-> ordered]
             /\ ret'  = enhance_text_with_temporal_context(text, metadata, ordered)
    /\ pc' = "enhance_text_with_temporal_context"
    /\ UNCHANGED <<libc_pads_year, chunker, embedding, ingest>>

InitEnhance ==
    InitIdle /\ libc_pads_year \in BOOLEAN /\ chunker = NoChunker /\ EmbeddingUnused /\ IngestUnused
NextEnhance == EnhanceTextWithTemporalContext
SpecEnhance == InitEnhance /\ [][NextEnhance]_vars

\* the segments the call composed its prefix from
SegmentsOf(a) == temporal_context(a.metadata, a.ordered)

\* the prefix the call emitted: the result without the text
EmittedPrefix == SubSeq(ret, 1, Len(ret) - Len(args.text))

\* the first k segments, unmodified, joined by " | "
LeadingRun(segments, k) == Join(SubSeq(segments, 1, k), <<" ","|"," ">>)

ComposedLength(segments) ==
    Len(<<"[","T","E","M","P","O","R","A","L","_","C","O","N","T","E","X","T",":"," ">>)
    + Len(LeadingRun(segments, Len(segments))) + Len(<<"]","\n">>)

\* C14: a composed prefix longer than 200 characters is emitted as a leading
\* run of whole, unmodified " | "-separated segments followed by "...": no
\* segment is cut part-way, whatever its length
C14_WholeSegmentsOnly ==
    pc = "enhance_text_with_temporal_context" /\ SegmentsOf(args) # <<>>
        /\ ComposedLength(SegmentsOf(args)) > 200 =>
    \E k \in 0..Len(SegmentsOf(args)) :
        EmittedPrefix =
            <<"[","T","E","M","P","O","R","A","L","_","C","O","N","T","E","X","T",":"," ">>
            \o LeadingRun(SegmentsOf(args), k) \o <<".",".",".","]","\n">>

(***************************************************************************)
(* The ingest path: upload_document (main.py:211-353) and import_from_gcs  *)
(* (vector_search_manager.py:904-1110) parse a file, chunk it and hand the *)
(* chunks to import_documents (vector_search_manager.py:279-392).  A chunk *)
(* is a dict that every later step reaches by reference: ingest.chunks are *)
(* those dicts, ingest.created what they held when the chunker made them.  *)
(* The file store, the parser and the clock are outside the model: the     *)
(* URLs, the parsed pages and the timestamps are inputs.  The index and    *)
(* its endpoint exist and the embedding and upsert calls succeed.          *)
(***************************************************************************)
\* not x, for an Optional[str]
Falsy(x) == ~x.some \/ x.v = <<>>

\* s.replace(old, new) for single characters
ReplaceChar(s, old, new) == [i \in 1..Len(s) |-> IF s[i] = old THEN new ELSE s[i]]

\* s.rsplit('.', 1)[0]
BeforeLastDot(s) == IF RFind(s, ".") >= 0 THEN Slice(s, 0, RFind(s, ".")) ELSE s

IsPdf(filename, content_type) ==
    \/ EndsWith(ToLower(filename), <<".","p","d","f">>)
    \/ content_type = <<"a","p","p","l","i","c","a","t","i","o","n","/","p","d","f">>

\* f"{filename.replace('.', '_').replace(' ', '_')}_{int(datetime.now().timestamp())}"
DocumentId(filename, timestamp) ==
    ReplaceChar(ReplaceChar(filename, ".", "_"), " ", "_") \o <<"_">> \o timestamp

\* the number of words of text.split()
SplitWordCount(text) ==
    Cardinality({i \in 1..Len(text) :
                    text[i] \notin Space /\ (i = 1 \/ text[i - 1] \in Space)})

\* the tables parse_pdf_by_pages has written into the page texts
TotalTables(page_texts) ==
    Cardinality({n \in 1..Len(page_texts) : Contains(page_texts[n], TableOpen)})

\* what parse_pdf_by_pages returns for a file none of whose pages it skips
PdfData(page_texts) ==
    [page_texts      |-> page_texts,
     total_pages     |-> Len(page_texts),
     non_empty_pages |-> Len(page_texts),
     total_chars     |-> Len(Concat(page_texts)),
     total_tables    |-> TotalTables(page_texts),
     has_tables      |-> TotalTables(page_texts) > 0]

\* what parse_document returns for a file that is not a PDF
ParsedDoc(text) ==
    [text |-> text, type |-> <<"t","e","x","t">>,
     char_count |-> Len(text), word_count |-> SplitWordCount(text)]

\* mutant: the date in the filename comes first
final_document_date_FilenameFirst(document_date, filename) ==
    IF extract_date_from_filename(filename).some
    THEN extract_date_from_filename(filename)
    ELSE document_date

\* main.py:250-265, vector_search_manager.py:1024-1037
final_document_date(document_date, filename) ==
    IF Falsy(document_date)
    THEN LET Extracted(extracted_date) ==
                 IF ~Falsy(extracted_date) THEN extracted_date ELSE document_date
         IN  Extracted(extract_date_from_filename(filename))
    ELSE document_date

WithDocumentDate(metadata, final) ==
    IF ~Falsy(final)
    THEN MergeMetadata(metadata, [document_date |-> final.v])
    ELSE metadata

\* main.py:241-269 and 289-296 or 320-324
UploadBaseMetadata(file, title, document_date, url, now) ==
    LET Typed(base_metadata) ==
            IF IsPdf(file.filename, file.content_type)
            THEN LET Pdf(pdf_data) ==
                         MergeMetadata(base_metadata,
                             [document_type   |-> <<"p","d","f">>,
                              total_pages     |-> pdf_data.total_pages,
                              non_empty_pages |-> pdf_data.non_empty_pages,
                              char_count      |-> pdf_data.total_chars,
                              has_tables      |-> pdf_data.has_tables,
                              total_tables    |-> pdf_data.total_tables])
                 IN  Pdf(PdfData(file.pages))
            ELSE LET Other(parsed_doc) ==
                         MergeMetadata(base_metadata,
                             [document_type |-> parsed_doc.type,
                              char_count    |-> parsed_doc.char_count,
                              word_count    |-> parsed_doc.word_count])
                 IN  Other(ParsedDoc(Concat(file.pages)))
    IN  Typed(WithDocumentDate(
                 [filename          |-> file.filename,
                  title             |-> IF Falsy(title) THEN file.filename ELSE title.v,
                  content_type      |-> file.content_type,
                  uploaded_at       |-> now,
                  original_file_url |-> url],
                 final_document_date(document_date, file.filename)))

\* vector_search_manager.py:976-985 and 995-1001 or 1011-1013
GcsBaseMetadata(file_info, now) ==
    LET Typed(base_metadata) ==
            IF IsPdf(file_info.filename, file_info.content_type)
            THEN LET Pdf(pdf_result) ==
                         MergeMetadata(base_metadata,
                             [document_type   |-> <<"p","d","f">>,
                              total_pages     |-> pdf_result.total_pages,
                              non_empty_pages |-> pdf_result.non_empty_pages,
                              has_tables      |-> pdf_result.has_tables,
                              total_tables    |-> pdf_result.total_tables])
                 IN  Pdf(PdfData(file_info.pages))
            ELSE MergeMetadata(base_metadata,
                               [document_type |-> ParsedDoc(Concat(file_info.pages)).type])
    IN  Typed([filename          |-> file_info.filename,
               source            |-> file_info.filename,
               title             |-> BeforeLastDot(file_info.filename),
               original_file_url |-> file_info.public_url,
               source_url        |-> file_info.public_url,
               gcs_source_path   |-> file_info.gcs_path,
               imported_from_gcs |-> TRUE,
               uploaded_at       |-> now])

\* vector_search_manager.py:1040-1056: the documents handed to
\* import_documents; each shares its metadata dict with its chunk
PrepareDocumentsFor(chunks, final) ==
    [n \in 1..Len(chunks) |->
        [id       |-> chunks[n].id,
         content  |-> chunks[n].content,
         metadata |-> WithDocumentDate(chunks[n].metadata, final)]]

\* mutant: the preview is written over the title
Indexed_OverTitle(doc, now) ==
    [doc EXCEPT !.metadata =
        MergeMetadata(@,
            [title      |-> Slice(doc.content, 0, Min(200, Len(doc.content))),
             indexed_at |-> now])]

\* vector_search_manager.py:313-316: the document with content_preview and
\* indexed_at written into its metadata
Indexed(doc, now) ==
    [doc EXCEPT !.metadata =
        MergeMetadata(@,
            [content_preview |-> Slice(doc.content, 0, Min(200, Len(doc.content))),
             indexed_at      |-> now])]

Get2(metadata, key, other_key, default) ==
    IF key \in DOMAIN metadata THEN metadata[key]
    ELSE IF other_key \in DOMAIN metadata THEN metadata[other_key] ELSE default

\* vector_search_manager.py:319-325: the entry of self.document_metadata
StoredDocument(doc, i) ==
    [id       |-> doc.id,
     content  |-> doc.content,
     metadata |-> doc.metadata,
     source   |-> IF "source_url" \in DOMAIN doc.metadata
                     /\ doc.metadata["source_url"] # <<>>
                  THEN doc.metadata["source_url"]
                  ELSE Get(doc.metadata, "filename", <<"U","n","k","n","o","w","n">>),
     title    |-> Get2(doc.metadata, "title", "filename",
                       <<"D","o","c","u","m","e","n","t"," ">> \o ToStr(i + 1))]

\* vector_search_manager.py:1130-1138 and 346-348
ChunkJsonPath(bucket, doc_id) ==
    <<"g","s",":","/","/">> \o bucket \o <<"/","v","e","c","t","o","r","_","s","e","a","r","c","h","/","i","d","x","/","d","o","c","u","m","e","n","t","s","/">> \o doc_id \o <<".","j","s","o","n">>
ChunkJsonUrl(bucket, doc_id) ==
    <<"h","t","t","p","s",":","/","/","s","t","o","r","a","g","e",".","c","l","o","u","d",".","g","o","o","g","l","e",".","c","o","m","/">> \o bucket
    \o <<"/","v","e","c","t","o","r","_","s","e","a","r","c","h","/","i","d","x","/","d","o","c","u","m","e","n","t","s","/">> \o doc_id \o <<".","j","s","o","n">>

WithChunkJson(stored, bucket) ==
    [k \in DOMAIN stored \cup {"chunk_json_path", "chunk_json_url"} |->
        IF k = "chunk_json_path" THEN ChunkJsonPath(bucket, stored.id)
        ELSE IF k = "chunk_json_url" THEN ChunkJsonUrl(bucket, stored.id)
        ELSE stored[k]]

\* self.document_metadata after import_documents has stored the documents
\* from position i on
RECURSIVE StoreDocuments(_, _, _, _, _)
StoreDocuments(store, documents, i, store_chunk_json, bucket) ==
    IF i > Len(documents) THEN store
    ELSE LET Put(stored) ==
                 [d \in DOMAIN store \cup {stored.id} |->
                     IF d = stored.id THEN stored ELSE store[d]]
         IN  StoreDocuments(
                 Put(IF store_chunk_json
                     THEN WithChunkJson(StoredDocument(documents[i], i - 1), bucket)
                     ELSE StoredDocument(documents[i], i - 1)),
                 documents, i + 1, store_chunk_json, bucket)

(***************************************************************************)
(* The ingest path as actions.  One document is ingested: the handler's    *)
(* position is pc, from "chunking" to "imported".                          *)
(***************************************************************************)
F_Plain   == <<"r",".","p","d","f">>
F_Dated   == <<"r","_","2","0","2","4","-","0","8","-","2","7",".","p","d","f">>
F_Quarter == <<"Q","4"," ","2","0","2","4",".","t","x","t">>
F_Notes   == <<"n",".","t","x","t">>
F_Scan    == <<"s","c","a","n">>
ApplicationPdf == <<"a","p","p","l","i","c","a","t","i","o","n","/","p","d","f">>
TextPlain      == <<"t","e","x","t","/","p","l","a","i","n">>

IngestPages ==
    { <<W_Prose>>, <<W_Table1 \o W_Mention \o W_Para, W_Long>>,
      <<<<" ">>, W_Sentence>>, <<<<" ", " ">>>> }

IngestFiles ==
    {[filename |-> f[1], content_type |-> f[2], pages |-> p] :
        f \in {<<F_Plain, ApplicationPdf>>, <<F_Dated, ApplicationPdf>>,
               <<F_Quarter, TextPlain>>, <<F_Notes, TextPlain>>,
               <<F_Scan, ApplicationPdf>>},
        p \in IngestPages}

\* the document_date form field: not sent, sent empty, sent with a date
DocumentDateForms == {None, Some(<<>>), Some(D_2023_01_02)}
Titles == {None, Some(<<"T">>)}

\* what the file store and the clock answer
OriginalFileUrl(filename) == <<"h","t","t","p","s",":","/","/","s","t","o","r","a","g","e",".","c","l","o","u","d",".","g","o","o","g","l","e",".","c","o","m","/","b","/","o","r","i","g","i","n","a","l","s","/">> \o filename
GcsPath(filename) == <<"g","s",":","/","/","b","/","i","n","/">> \o filename
T_Uploaded == <<"2","0","2","5","-","0","1","-","0","1","T","1","0",":","0","0",":","0","0">>
T_Indexed  == <<"2","0","2","5","-","0","1","-","0","1","T","1","0",":","0","0",":","0","5">>
T_Epoch    == <<"1","7","3","5","7","2","5","6","0","0">>
Bucket     == <<"b">>

FileInfo(file) ==
    [filename |-> file.filename, content_type |-> file.content_type,
     pages |-> file.pages, gcs_path |-> GcsPath(file.filename),
     public_url |-> OriginalFileUrl(file.filename)]

Ingesting(route, file, document_date, base_metadata) ==
    [route |-> route, file |-> file, document_date |-> document_date,
     base_metadata |-> base_metadata,
     document_id |-> DocumentId(file.filename, T_Epoch),
     chunks |-> <<>>, created |-> <<>>, document_metadata |-> <<>>]

\* main.py:211-283: the request up to the call of the chunker
UploadDocument ==
    /\ pc = "idle"
    /\ \E file \in IngestFiles, document_date \in DocumentDateForms,
          title \in Titles, c \in Chunkers :
          /\ chunker' = c
          /\ args' = [file |-> file, document_date |-> document_date, title |-> title]
          /\ ingest' = Ingesting("upload", file, document_date,
                           UploadBaseMetadata(file, title, document_date,
                               OriginalFileUrl(file.filename), T_Uploaded))
    /\ pc' = "chunking"
    /\ UNCHANGED <<ret, libc_pads_year, embedding>>

\* vector_search_manager.py:904-1001: one file of the import up to the call
\* of the chunker
ImportFromGcs ==
    /\ pc = "idle"
    /\ \E file \in IngestFiles, document_date \in DocumentDateForms, c \in Chunkers :
          /\ chunker' = c
          /\ args' = [file |-> file, document_date |-> document_date]
          /\ ingest' = Ingesting("gcs", file, document_date,
                           GcsBaseMetadata(FileInfo(file), T_Uploaded))
    /\ pc' = "chunking"
    /\ UNCHANGED <<ret, libc_pads_year, embedding>>

AfterChunking == IF ingest.route = "gcs" THEN "prepare_documents" ELSE "import_documents"

\* text_chunker.py:138-159 or 455-479: the chunk dicts are made
CreateChunks ==
    /\ pc = "chunking"
    /\ LET Made(chunks) == ingest' = [ingest EXCEPT !.chunks = chunks, !.created = chunks]
       IN  IF IsPdf(ingest.file.filename, ingest.file.content_type)
           THEN /\ Made(PageLoop(chunker, ingest.file.pages, 0, 0,
                                 ingest.base_metadata, Some(ingest.document_id)))
                /\ pc' = "back_fill"
           ELSE /\ Made(chunk_text(chunker, Concat(ingest.file.pages),
                                   ingest.base_metadata, Some(ingest.document_id)))
                /\ pc' = AfterChunking
    /\ UNCHANGED <<args, ret, libc_pads_year, chunker, embedding>>

\* text_chunker.py:481-496: the rest of chunk_pdf_by_pages
BackFillChunks ==
    /\ pc = "back_fill"
    /\ ingest' = [ingest EXCEPT !.chunks = BackFill(chunker, @)]
    /\ pc' = AfterChunking
    /\ UNCHANGED <<args, ret, libc_pads_year, chunker, embedding>>

\* vector_search_manager.py:1024-1056
PrepareDocuments ==
    /\ pc = "prepare_documents"
    /\ ingest' = [ingest EXCEPT !.chunks =
                     PrepareDocumentsFor(@,
                         final_document_date(ingest.document_date,
                                             ingest.file.filename))]
    /\ pc' = "import_documents"
    /\ UNCHANGED <<args, ret, libc_pads_year, chunker, embedding>>

\* vector_search_manager.py:279-392, called with store_chunk_json=True and
\* no bucket_name by both routes (main.py:344, vector_search_manager.py:1059)
ImportDocuments ==
    /\ pc = "import_documents"
    /\ LET Import(documents) ==
              /\ ingest' = [ingest EXCEPT
                     !.chunks = documents,
                     !.document_metadata =
                         StoreDocuments(@, documents, 1, TRUE, Bucket)]
              /\ ret' = [status |-> "imported", document_count |-> Len(documents),
                         datapoints_created |-> Len(documents)]
       IN  Import([n \in 1..Len(ingest.chunks) |-> Indexed(ingest.chunks[n], T_Indexed)])
    /\ pc' = "imported"
    /\ UNCHANGED <<args, libc_pads_year, chunker, embedding>>

(***************************************************************************)
(* Citations (vector_search_manager.py:607-718) as get_document builds     *)
(* them: no score.                                                         *)
(***************************************************************************)
\* d with key k set to v
Put(d, k, v) == [x \in DOMAIN d \cup {k} |-> IF x = k THEN v ELSE d[x]]

\* lines 636-646: the keys copied from the metadata when it has them
CopyFrom(metadata, keys, citation) ==
    [k \in DOMAIN citation \cup (keys \cap DOMAIN metadata) |->
        IF k \in keys \cap DOMAIN metadata THEN metadata[k] ELSE citation[k]]

\* lines 648-658: the URLs of the citation
WithLinks(citation, metadata, doc_info) ==
    IF "original_file_url" \in DOMAIN metadata
    THEN Put(Put(citation, "original_file_url", metadata["original_file_url"]),
             "clickable_link", metadata["original_file_url"])
    ELSE IF "source_url" \in DOMAIN metadata /\ metadata["source_url"] # <<>>
    THEN Put(Put(citation, "source_url", metadata["source_url"]),
             "clickable_link", metadata["source_url"])
    ELSE IF "gcs_url" \in DOMAIN doc_info
    THEN Put(Put(citation, "gcs_chunk_url", doc_info["gcs_url"]),
             "clickable_link", doc_info["gcs_url"])
    ELSE citation

\* lines 660-662
WithDate(citation, metadata) ==
    IF "document_date" \in DOMAIN metadata
    THEN Put(citation, "date", metadata["document_date"])
    ELSE citation

\* lines 668-680: the title with the place of the chunk
TitlePart(citation) ==
    LET location_info ==
               (IF "page_number" \in DOMAIN citation
                THEN <<<<"P","a","g","e"," ">> \o ToStr(citation["page_number"])>> ELSE <<>>)
            \o (IF "page_chunk_index" \in DOMAIN citation
                THEN <<<<"C","h","u","n","k"," ">> \o ToStr(citation["page_chunk_index"])>>
                ELSE IF "chunk_index" \in DOMAIN citation
                THEN <<<<"C","h","u","n","k"," ">> \o ToStr(citation["chunk_index"])>> ELSE <<>>)
    IN  IF location_info # <<>>
        THEN citation["title"] \o <<" ", "(">> \o Join(location_info, CommaSpace) \o <<")">>
        ELSE citation["title"]

\* lines 664-697: the parts joined by " | "
Formatted(citation) ==
    Join(<<TitlePart(citation)>>
         \o (IF "date" \in DOMAIN citation /\ citation["date"] # <<>>
             THEN <<<<"D","a","t","e",":"," ">> \o citation["date"]>> ELSE <<>>)
         \o (IF citation["source"] # <<"U","n","k","n","o","w","n">>
             THEN <<<<"S","o","u","r","c","e",":"," ">> \o citation["source"]>> ELSE <<>>),
         SegmentSeparator)

\* lines 699-703
WithFormatted(citation, formatted) ==
    Put(Put(citation, "formatted", formatted), "formatted_with_link",
        IF "clickable_link" \in DOMAIN citation /\ citation["clickable_link"] # <<>>
        THEN formatted \o <<"\n","V","i","e","w"," ","D","o","c","u","m","e","n","t",":"," ">> \o citation["clickable_link"]
        ELSE formatted)

\* _format_citation(doc_id, doc_info) for a stored document: it has a
\* title, a source and a metadata dict
_format_citation(doc_id, doc_info) ==
    LET Finish(citation) == WithFormatted(citation, Formatted(citation))
    IN  Finish(WithDate(
            WithLinks(
                CopyFrom(doc_info.metadata,
                         {"page_number", "chunk_index", "page_chunk_index",
                          "quality_score"},
                         [document_id |-> doc_id, title |-> doc_info.title,
                          source |-> doc_info.source]),
                doc_info.metadata, doc_info),
            doc_info.metadata))

\* vector_search_manager.py:1220-1229
get_document(store, document_id) ==
    IF document_id \in DOMAIN store
    THEN Some(Put(store[document_id], "citation",
                  _format_citation(document_id, store[document_id])))
    ELSE None

(***************************************************************************)
(* Documents imported as they are (main.py:181-207) and get_document.      *)
(***************************************************************************)
U_Source   == <<"h","t","t","p","s",":","/","/","e","x","a","m","p","l","e",".","o","r","g","/","n",".","t","x","t">>
U_Original == <<"h","t","t","p","s",":","/","/","s","t","o","r","a","g","e",".","c","l","o","u","d",".","g","o","o","g","l","e",".","c","o","m","/","b","/","o","r","i","g","i","n","a","l","s","/","n",".","t","x","t">>

RequestMetadata ==
    { [k \in {"title"} |-> <<"T">>],
      [k \in {"filename"} |-> F_Notes],
      [k \in {"source_url"} |-> U_Source],
      [k \in {"source_url", "original_file_url"} |->
          IF k = "source_url" THEN U_Source ELSE U_Original] }

\* a request of one or two documents; every document has an id and metadata
RequestDocuments ==
    {<<[id |-> <<"d","1">>, content |-> W_Sentence, metadata |-> m]>> :
        m \in RequestMetadata}
    \cup {<<[id |-> <<"d","1">>, content |-> W_Sentence, metadata |-> m1],
            [id |-> <<"d","2">>, content |-> W_Prose, metadata |-> m2]>> :
          m1 \in RequestMetadata, m2 \in RequestMetadata}

BucketNames == {None, Some(<<"c">>)}

\* main.py:181-207 with vector_search_manager.py:279-392
ImportDocumentsRequest ==
    /\ pc = "idle"
    /\ \E documents \in RequestDocuments, bucket_name \in BucketNames :
          LET Import(indexed) ==
                 /\ args' = [documents |-> documents, bucket_name |-> bucket_name]
                 /\ ingest' = [route |-> "import", chunks |-> indexed,
                               document_metadata |->
                                   StoreDocuments(<<>>, indexed, 1, TRUE,
                                       IF bucket_name.some THEN bucket_name.v
                                       ELSE Bucket)]
                 /\ ret' = [status |-> "imported", document_count |-> Len(indexed),
                            datapoints_created |-> Len(indexed)]
          IN  Import([n \in 1..Len(documents) |-> Indexed(documents[n], T_Indexed)])
    /\ pc' = "stored"
    /\ UNCHANGED <<libc_pads_year, chunker, embedding>>

DocumentIds == {<<"d","1">>, <<"d","3">>}

\* vector_search_manager.py:1220-1229, once documents have been imported
GetDocument ==
    /\ pc \in {"imported", "stored"}
    /\ \E document_id \in DocumentIds \cup DOMAIN ingest.document_metadata :
          /\ args' = [document_id |-> document_id]
          /\ ret'  = get_document(ingest.document_metadata, document_id)
    /\ pc' = "get_document"
    /\ UNCHANGED <<libc_pads_year, chunker, embedding, ingest>>

InitIngest ==
    InitIdle /\ libc_pads_year = TRUE /\ chunker = NoChunker /\ EmbeddingUnused /\ IngestUnused
NextIngest ==
    \/ UploadDocument \/ ImportFromGcs \/ CreateChunks \/ BackFillChunks
    \/ PrepareDocuments \/ ImportDocuments
    \/ ImportDocumentsRequest \/ GetDocument
SpecIngest == InitIngest /\ [][NextIngest]_vars

\* the chunks exist
Chunked == pc \in {"back_fill", "prepare_documents", "import_documents", "imported"}

\* no entry the chunk was created with is gone or has another value
KeepsCreatedEntries(chunk, created) ==
    /\ chunk.content = created.content
    /\ chunk.id = created.id
    /\ \A k \in DOMAIN created.metadata :
          k \in DOMAIN chunk.metadata /\ chunk.metadata[k] = created.metadata[k]

AddedKeys(chunk, created) == DOMAIN chunk.metadata \ DOMAIN created.metadata

\* C15 as stated: after its creation a chunk has the content, the id and the
\* metadata entries it was created with, and the only entry written later
\* is total_chunks
C15_OnlyTotalChunksWritten ==
    Chunked =>
        /\ Len(ingest.chunks) = Len(ingest.created)
        /\ \A n \in 1..Len(ingest.chunks) :
              /\ KeepsCreatedEntries(ingest.chunks[n], ingest.created[n])
              /\ AddedKeys(ingest.chunks[n], ingest.created[n]) \subseteq {"total_chunks"}

QualityKeys ==
    {"quality_score", "sentence_count", "word_count", "has_table", "table_count",
     "has_complete_table"}

\* the entries a step may have written by the time the handler is at pc
WrittenBy(position, route, pdf) ==
    (IF pdf /\ position # "back_fill" THEN {"total_chunks"} \cup QualityKeys ELSE {})
    \cup (IF route = "gcs" /\ position \in {"import_documents", "imported"}
          THEN {"document_date"} ELSE {})
    \cup (IF position = "imported" THEN {"content_preview", "indexed_at"} ELSE {})

\* C15 amended: after its creation a chunk keeps its content, its id and
\* every metadata entry it was created with; later steps only add entries:
\* total_chunks and the six quality metrics (rest of chunk_pdf_by_pages),
\* document_date (import_from_gcs), content_preview and indexed_at
\* (import_documents)
C15_OnlyBackFillsWritten ==
    Chunked =>
        /\ Len(ingest.chunks) = Len(ingest.created)
        /\ \A n \in 1..Len(ingest.chunks) :
              /\ KeepsCreatedEntries(ingest.chunks[n], ingest.created[n])
              /\ AddedKeys(ingest.chunks[n], ingest.created[n])
                    \subseteq WrittenBy(pc, ingest.route,
                                        IsPdf(ingest.file.filename,
                                              ingest.file.content_type))

\* a PDF imported from GCS whose chunks have received every later entry
C15_Witness ==
    /\ pc = "imported" /\ ingest.route = "gcs" /\ Len(ingest.chunks) > 1
    /\ \A n \in 1..Len(ingest.chunks) :
          AddedKeys(ingest.chunks[n], ingest.created[n])
              = {"total_chunks", "document_date", "content_preview", "indexed_at"}
                \cup QualityKeys

(***************************************************************************)
(* What the claims about chunk sizes and blank chunks say.                 *)
(***************************************************************************)
\* the text has no table block: not even the opening marker of one
TableFree(text) == ~Contains(text, TableOpen)

\* C16: for a text without table block, every chunk chunk_text returns has at
\* most chunk_size characters, after merging and after the overlap has been
\* prepended (0 <= chunk_overlap < chunk_size in every chunker of the model)
C16_ChunkSizeIsMaximum ==
    pc = "chunk_text" /\ TableFree(args.text) =>
        \A n \in 1..Len(ret) : Len(ret[n].content) <= chunker.chunk_size

Blank(text) == Strip(text) = <<>>

\* C17: no chunk that chunk_text or chunk_pdf_by_pages returns has empty or
\* whitespace-only content, and blank text and blank pages give no chunk
C17_NoBlankChunk ==
    /\ pc \in {"chunk_text", "chunk_pdf_by_pages"} =>
          \A n \in 1..Len(ret) : ~Blank(ret[n].content)
    /\ pc = "chunk_text" /\ Blank(args.text) => ret = <<>>
    /\ pc = "chunk_pdf_by_pages"
          /\ (\A p \in 1..Len(args.page_texts) : Blank(args.page_texts[p]))
          => ret = <<>>

(***************************************************************************)
(* What the claims about the ingest path say.                              *)
(***************************************************************************)
\* the metadata stored for the chunks of the ingested document, chunk by chunk
StoredMetadata ==
    [n \in 1..Len(ingest.chunks) |->
        ingest.document_metadata[ingest.chunks[n].id].metadata]

\* the caller gave a document_date
Supplied == ingest.document_date.some /\ ingest.document_date.v # <<>>

\* metadata has document_date with this value, or has no such key for None
HasDocumentDate(metadata, expected) ==
    IF expected.some
    THEN "document_date" \in DOMAIN metadata /\ metadata["document_date"] = expected.v
    ELSE "document_date" \notin DOMAIN metadata

\* C18: after an upload or a GCS import, every chunk of the document has in
\* its stored metadata the document_date the caller supplied if there is
\* one, else the date extract_date_from_filename finds in the filename, and
\* no document_date key if there is neither
C18_DocumentDatePriority ==
    pc = "imported" =>
        \A n \in 1..Len(ingest.chunks) :
            /\ StoredMetadata[n] = ingest.chunks[n].metadata
            /\ HasDocumentDate(StoredMetadata[n],
                  IF Supplied THEN ingest.document_date
                  ELSE extract_date_from_filename(ingest.file.filename))

\* a document of several chunks, imported with a supplied date under a
\* filename that holds another date
C18_Witness ==
    /\ pc = "imported" /\ Len(ingest.chunks) > 1 /\ Supplied
    /\ extract_date_from_filename(ingest.file.filename).some
    /\ extract_date_from_filename(ingest.file.filename) # ingest.document_date
    /\ \A n \in 1..Len(ingest.chunks) :
          StoredMetadata[n]["document_date"] = ingest.document_date.v

\* the link the claim gives a stored document: metadata.original_file_url,
\* else metadata.source_url, else the chunk JSON URL recorded at import
ExpectedLink(doc_info) ==
    IF "original_file_url" \in DOMAIN doc_info.metadata
    THEN Some(doc_info.metadata["original_file_url"])
    ELSE IF "source_url" \in DOMAIN doc_info.metadata
    THEN Some(doc_info.metadata["source_url"])
    ELSE IF "chunk_json_url" \in DOMAIN doc_info
    THEN Some(doc_info["chunk_json_url"])
    ELSE None

\* C19: the citation of a stored document has as clickable_link
\* metadata.original_file_url, else metadata.source_url, else the
\* chunk_json_url recorded at import, and has none only if there is none of
\* the three
C19_LinkPriority ==
    pc = "get_document" /\ ret.some =>
        LET Agrees(citation, expected) ==
                IF expected.some
                THEN "clickable_link" \in DOMAIN citation
                     /\ citation["clickable_link"] = expected.v
                ELSE "clickable_link" \notin DOMAIN citation
        IN  Agrees(ret.v["citation"],
                   ExpectedLink(ingest.document_metadata[args.document_id]))

(***************************************************************************)
(* The canonical shapes of a date taken from a filename.                   *)
(***************************************************************************)
DigitsOnly(s) == \A i \in 1..Len(s) : s[i] \in Digits

\* YYYY
ShapeYear(s) == Len(s) = 4 /\ DigitsOnly(s)

\* YYYY-MM with month 01..12
ShapeMonthYear(s) ==
    /\ Len(s) = 7 /\ ShapeYear(SubSeq(s, 1, 4)) /\ s[5] = "-"
    /\ DigitsOnly(SubSeq(s, 6, 7))
    /\ ToInt(SubSeq(s, 6, 7)) \in 1..12

\* YYYY-MM-DD with year 1900..2100, month 1..12, day 1..31
ShapeFullDate(s) ==
    /\ Len(s) = 10 /\ ShapeYear(SubSeq(s, 1, 4)) /\ s[5] = "-" /\ s[8] = "-"
    /\ DigitsOnly(SubSeq(s, 6, 7)) /\ DigitsOnly(SubSeq(s, 9, 10))
    /\ ToInt(SubSeq(s, 1, 4)) \in 1900..2100
    /\ ToInt(SubSeq(s, 6, 7)) \in 1..12
    /\ ToInt(SubSeq(s, 9, 10)) \in 1..31

\* Q{1-4} YYYY
ShapeQuarter(s) ==
    /\ Len(s) = 7 /\ s[1] = "Q" /\ s[2] \in {"1", "2", "3", "4"} /\ s[3] = " "
    /\ ShapeYear(SubSeq(s, 4, 7))

SkippedTables(text) ==
    SelectSeq(TableMatches(text, 1), LAMBDA m : Len(Strip(m.inner)) < 5)

\* the 1-based positions of the text that lie in a skipped match
InSkippedTable(text, i) ==
    \E k \in 1..Len(SkippedTables(text)) :
        SkippedTables(text)[k].start < i /\ i <= SkippedTables(text)[k].end

Parenthesis(c) == IF c = "[" THEN "(" ELSE IF c = "]" THEN ")" ELSE c

\* the text with every skipped block written as ordinary text: its square
\* brackets are parentheses, so that it holds no table marker
AsOrdinaryText(text) ==
    [i \in 1..Len(text) |->
        IF InSkippedTable(text, i) THEN Parenthesis(text[i]) ELSE text[i]]

\* a string with all its square brackets as parentheses
Parenthesized(s) == [i \in 1..Len(s) |-> Parenthesis(s[i])]

\* the two chunk lists have the same boundaries and the same table flags
SameChunking(chunks, plain) ==
    /\ Len(chunks) = Len(plain)
    /\ \A n \in 1..Len(chunks) :
          /\ Parenthesized(chunks[n].content) = Parenthesized(plain[n].content)
          /\ chunks[n].metadata["has_table"] = plain[n].metadata["has_table"]
          /\ chunks[n].metadata["table_count"] = plain[n].metadata["table_count"]

\* C21: for a text with a [TABLE n]...[END TABLE] block whose inner content
\* is empty or shorter than 5 characters, the block is not in the table-block
\* list and chunk_text gives the chunks, with their has_table and table_count
\* flags, that it gives when that block is ordinary text, also next to valid
\* table blocks
C21_MalformedTableIsText ==
    pc = "chunk_text" /\ SkippedTables(args.text) # <<>> =>
        /\ \A k \in 1..Len(_extract_table_blocks(chunker, args.text)) :
              Len(_extract_table_blocks(chunker, args.text)[k].table_text) >= 5
        /\ SameChunking(ret,
               chunk_text(chunker, AsOrdinaryText(args.text), args.metadata,
                          args.document_id))

(***************************************************************************)
(* DocumentParser._table_to_markdown (document_parser.py:44-128).  A table *)
(* is None or a list of rows, a row a list of cells, a cell None or a      *)
(* string, as pdfplumber's extract() gives them.                           *)
(***************************************************************************)
\* lines 45-54: all cells are None, empty or blank
_is_empty_row(row) ==
    \A i \in 1..Len(row) : ~row[i].some \/ row[i].v = <<>> \/ Strip(row[i].v) = <<>>

\* line 77: str(cell).strip() if cell is not None else ""
cleaned_row(row) == [i \in 1..Len(row) |-> IF row[i].some THEN Strip(row[i].v) ELSE <<>>]

\* lines 70-78: the rows kept, cleaned
CleanedRows(table) ==
    LET Cleaned(kept) == [n \in 1..Len(kept) |-> cleaned_row(kept[n])]
    IN  Cleaned(SelectSeq(table, LAMBDA row : ~_is_empty_row(row)))

\* max(f[1], ..., f[n]) for a non-empty sequence of numbers
MaxOf(f) == CHOOSE m \in Range(f) : \A x \in Range(f) : x <= m

\* s.ljust(width)
LJust(s, width) == s \o [i \in 1..(width - Len(s)) |-> " "]

\* lines 95-103: every row padded to col_count cells
normalized_rows(rows, col_count) ==
    [n \in 1..Len(rows) |->
        [i \in 1..col_count |-> IF i <= Len(rows[n]) THEN rows[n][i] ELSE <<>>]]

\* lines 105-109
col_widths(rows, col_count) ==
    [i \in 1..col_count |-> MaxOf([n \in 1..Len(rows) |-> Len(rows[n][i])])]

\* f"| {' | '.join(cells)} |"
MarkdownLine(cells) == <<"|", " ">> \o Join(cells, SegmentSeparator) \o <<" ", "|">>

\* lines 111-126: the header, the separator and the data rows
MarkdownLines(rows, widths) ==
    LET Line(row) == MarkdownLine([i \in 1..Len(widths) |-> LJust(row[i], widths[i])])
    IN  <<Line(rows[1]),
          MarkdownLine([i \in 1..Len(widths) |-> [k \in 1..widths[i] |-> "-"]])>>
        \o [n \in 1..(Len(rows) - 1) |-> Line(rows[n + 1])]

_table_to_markdown(table) ==
    IF ~table.some \/ table.v = <<>> THEN <<>>
    ELSE LET Built(rows) ==
                 IF Len(rows) < 2 THEN <<>>
                 ELSE LET Wide(col_count) ==
                              IF col_count < 2 THEN <<>>
                              ELSE LET Normal(normal) ==
                                           Join(MarkdownLines(normal,
                                                    col_widths(normal, col_count)),
                                                <<"\n">>)
                                   IN  Normal(normalized_rows(rows, col_count))
                      IN  Wide(MaxOf([n \in 1..Len(rows) |-> Len(rows[n])]))
         IN  Built(CleanedRows(table.v))

(***************************************************************************)
(* _table_to_markdown as an action.                                        *)
(***************************************************************************)
MaxRows == 3
MaxCols == 2

Cells ==
    { None, Some(<<" ">>), Some(<<"a">>), Some(<<"b", "c", " ">>),
      Some(<<"d", "|", "e">>), Some(<<"f", "\n", "g">>) }

Tables == {None} \cup {Some(t) : t \in SeqsUpTo(SeqsUpTo(Cells, MaxCols), MaxRows)}

TableToMarkdown ==
    /\ pc = "idle"
    /\ \E table \in Tables :
          /\ args' = [table |-> table]
          /\ ret'  = _table_to_markdown(table)
    /\ pc' = "_table_to_markdown"
    /\ UNCHANGED <<libc_pads_year, chunker, embedding, ingest>>

InitTable ==
    InitIdle /\ libc_pads_year = TRUE /\ chunker = NoChunker /\ EmbeddingUnused /\ IngestUnused
NextMarkdown == TableToMarkdown
SpecTable == InitTable /\ [][NextMarkdown]_vars

\* the rows of a table that have a cell that is neither None nor blank
RemainingRows(table) ==
    SelectSeq(table, LAMBDA row :
        \E i \in 1..Len(row) : row[i].some /\ Strip(row[i].v) # <<>>)

\* the table is one the claim has rejected
Rejected(table) ==
    \/ ~table.some \/ table.v = <<>>
    \/ Len(RemainingRows(table.v)) < 2
    \/ \A n \in 1..Len(RemainingRows(table.v)) : Len(RemainingRows(table.v)[n]) < 2

\* the cells of a line of a markdown table: what lies between its bars
CellsOfLine(line) == Cardinality({i \in 1..Len(line) : line[i] = "|"}) - 1

\* C22: _table_to_markdown returns the empty string exactly for a table that
\* is None or empty, or has fewer than 2 rows left once the rows of empty
\* cells are removed, or whose widest remaining row has fewer than 2 cells;
\* otherwise the header line, the separator line and every data line of the
\* markdown have the same number of cells
C22_MarkdownWellFormed ==
    pc = "_table_to_markdown" =>
        /\ ret = <<>> <=> Rejected(args.table)
        /\ ret # <<>> =>
              LET Even(lines) ==
                      /\ Len(lines) >= 3
                      /\ \A n \in 1..Len(lines) :
                            CellsOfLine(lines[n]) = CellsOfLine(lines[1])
              IN  Even(SplitBy(ret, <<"\n">>))

(***************************************************************************)
(* The loop of _merge_with_table_awareness, iteration by iteration         *)
(* (text_chunker.py:357-428): current_chunk, its flags and final_chunks    *)
(* after the loop has taken chunks[2..n], with two ghost fields, the index *)
(* `first` of the piece the running chunk was started with and the         *)
(* overlap_text put in front of that piece.                                *)
(***************************************************************************)
\* mutant: no piece counts as oversized
IsOversized_Never(self, chunk) == FALSE

\* lines 360, 364
IsOversized(self, chunk) == Len(chunk) > self.chunk_size * 2

RECURSIVE TableMergeState(_, _, _)
TableMergeState(self, chunks, n) ==
    IF n = 1
    THEN [current_chunk        |-> chunks[1],
          current_has_table    |-> HasTable(chunks[1]),
          current_is_oversized |-> IsOversized(self, chunks[1]),
          final_chunks         |-> <<>>,
          first                |-> 1,
          overlap_text         |-> <<>>]
    ELSE LET Step(s, next_chunk, next_has_table, next_is_oversized) ==
                 IF s.current_is_oversized \/ next_is_oversized
                 THEN [current_chunk        |-> next_chunk,
                       current_has_table    |-> next_has_table,
                       current_is_oversized |-> next_is_oversized,
                       final_chunks         |-> Append(s.final_chunks, Strip(s.current_chunk)),
                       first                |-> n,
                       overlap_text         |-> <<>>]
                 ELSE IF ShouldMerge(self, s.current_chunk, s.current_has_table,
                                     next_chunk, next_has_table)
                 THEN [s EXCEPT !.current_chunk = @ \o <<"\n", "\n">> \o next_chunk,
                                !.current_has_table = @ \/ next_has_table]
                 ELSE LET Started(started) ==
                              [current_chunk        |-> started,
                               current_has_table    |-> next_has_table,
                               current_is_oversized |-> s.current_is_oversized,
                               final_chunks         |-> Append(s.final_chunks, Strip(s.current_chunk)),
                               first                |-> n,
                               overlap_text         |->
                                   IF Len(started) = Len(next_chunk) THEN <<>>
                                   ELSE SubSeq(started, 1, Len(started) - Len(next_chunk) - 2)]
                      IN  Started(NextCurrent(self, s.current_chunk, s.current_has_table,
                                              next_chunk, next_has_table))
         IN  Step(TableMergeState(self, chunks, n - 1), chunks[n],
                  HasTable(chunks[n]), IsOversized(self, chunks[n]))

\* lines 430-434: the last chunk is added unless it is blank
Flushed(s) ==
    IF Strip(s.current_chunk) # <<>>
    THEN Append(s.final_chunks, Strip(s.current_chunk)) ELSE s.final_chunks

\* lines 220-232: the pieces chunk_text hands to _merge_with_table_awareness
\* for a text with table blocks
TablePieces(self, text) ==
    LET Of(table_blocks) ==
            IF table_blocks = <<>> THEN <<>>
            ELSE ChunkSegments(self, Segments(text, table_blocks, 0, <<>>))
    IN  Of(_extract_table_blocks(self, text))

Oversized(self, piece) == Len(piece) > 2 * self.chunk_size

\* piece k of chunks is a running chunk of its own: it starts one with no
\* overlap_text before it, and is finalized alone and stripped by the piece
\* after it, which takes no overlap_text, or by the end of the list
StandsAlone(self, chunks, k) ==
    LET At(s) == s.first = k /\ s.overlap_text = <<>> /\ s.current_chunk = chunks[k]
        Next(s, t) ==
            /\ t.first = k + 1 /\ t.overlap_text = <<>>
            /\ t.current_chunk = chunks[k + 1]
            /\ t.final_chunks = Append(s.final_chunks, Strip(chunks[k]))
    IN  /\ At(TableMergeState(self, chunks, k))
        /\ IF k < Len(chunks)
           THEN Next(TableMergeState(self, chunks, k), TableMergeState(self, chunks, k + 1))
           ELSE LET out == _merge_with_table_awareness(self, chunks)
                IN  out # <<>> /\ out[Len(out)] = Strip(chunks[k])

\* C23: in _merge_with_table_awareness every input piece longer than
\* 2 x chunk_size is an output chunk of its own, equal to the piece stripped:
\* it is joined to no neighbour, and no overlap text is put before it or
\* taken from it.  The pieces are those chunk_text makes of its text.
C23_OversizedStandsAlone ==
    pc = "chunk_text" =>
        LET Holds(chunks) ==
                /\ chunks # <<>> =>
                      Flushed(TableMergeState(chunker, chunks, Len(chunks)))
                          = _merge_with_table_awareness(chunker, chunks)
                /\ \A k \in 1..Len(chunks) :
                      Oversized(chunker, chunks[k]) => StandsAlone(chunker, chunks, k)
        IN  Holds(TablePieces(chunker, args.text))

\* an oversized piece followed by a piece that would be joined to it if it
\* were not oversized
C23_Witness ==
    /\ pc = "chunk_text"
    /\ LET Seen(chunks) ==
               \E k \in 1..(Len(chunks) - 1) :
                  /\ Oversized(chunker, chunks[k])
                  /\ ShouldMerge(chunker, chunks[k], HasTable(chunks[k]),
                                 chunks[k + 1], HasTable(chunks[k + 1]))
       IN  Seen(TablePieces(chunker, args.text))\* piece n starts a running chunk of its own, with no text of the running
\* chunk before it in front of it
StartsAfresh(self, chunks, n) ==
    LET At(s) == s.first = n /\ s.overlap_text = <<>>
    IN  At(TableMergeState(self, chunks, n))

\* C24: in _merge_with_table_awareness a text-only piece and a table-bearing
\* piece that are neighbours are never merged, and no overlap text is
\* carried from the one to the other.  The pieces are those chunk_text makes
\* of its text, and table-bearing is what the function takes it to be, a
\* piece that holds '[TABLE'.
C24_NoTextTableMix ==
    pc = "chunk_text" =>
        LET Holds(chunks) ==
                \A n \in 2..Len(chunks) :
                    HasTable(chunks[n - 1]) # HasTable(chunks[n])
                        => StartsAfresh(chunker, chunks, n)
        IN  Holds(TablePieces(chunker, args.text))

(***************************************************************************)
(* The loop of _merge_and_overlap, iteration by iteration                  *)
(* (text_chunker.py:321-337): current_chunk and final_chunks after the     *)
(* loop has taken chunks[2..n].                                            *)
(***************************************************************************)
\* mutant: no overlap is taken
StartNext_Never(self, current_chunk, next_chunk) == next_chunk

\* lines 331-337: the running chunk after current_chunk was finalized
StartNext(self, current_chunk, next_chunk) ==
    IF self.chunk_overlap > 0 /\ Len(current_chunk) > self.chunk_overlap
    THEN LastN(current_chunk, self.chunk_overlap) \o <<" ">> \o next_chunk
    ELSE next_chunk

RECURSIVE MergeState(_, _, _)
MergeState(self, chunks, n) ==
    IF n = 1 THEN [current_chunk |-> chunks[1], final_chunks |-> <<>>]
    ELSE LET Step(s, next_chunk) ==
                 IF Len(s.current_chunk) < self.chunk_size \div 2
                 THEN [s EXCEPT !.current_chunk = @ \o <<" ">> \o next_chunk]
                 ELSE [current_chunk |-> StartNext(self, s.current_chunk, next_chunk),
                       final_chunks  |-> Append(s.final_chunks, Strip(s.current_chunk))]
         IN  Step(MergeState(self, chunks, n - 1), chunks[n])

\* lines 246-263: the pieces _split_text hands to _merge_and_overlap
SplitPieces(self, text) == SplitLoop(self, <<text>>, separators)

\* the running chunk is finalized by piece n + 1
FinalizedAt(self, chunks, n) ==
    /\ n < Len(chunks)
    /\ Len(MergeState(self, chunks, n).current_chunk) >= self.chunk_size \div 2

\* C25 as stated: with chunk_overlap > 0, whenever a running chunk is
\* finalized and another piece follows, the next running chunk is the last
\* chunk_overlap characters of the finalized chunk followed by the next
\* piece, with or without a blank between them.  The pieces are those
\* chunk_text makes of a text without tables.
C25_OverlapAlways ==
    pc = "chunk_text" /\ chunker.chunk_overlap > 0
       /\ _extract_table_blocks(chunker, args.text) = <<>> =>
        LET Holds(chunks) ==
                \A n \in 1..Len(chunks) : FinalizedAt(chunker, chunks, n) =>
                    LET Follows(s, t) ==
                            /\ Len(s.current_chunk) >= chunker.chunk_overlap
                            /\ t.current_chunk \in
                                  { LastN(s.current_chunk, chunker.chunk_overlap)
                                        \o chunks[n + 1],
                                    LastN(s.current_chunk, chunker.chunk_overlap)
                                        \o <<" ">> \o chunks[n + 1] }
                    IN  Follows(MergeState(chunker, chunks, n),
                                MergeState(chunker, chunks, n + 1))
        IN  Holds(SplitPieces(chunker, args.text))

\* C25 amended: with chunk_overlap > 0, whenever a running chunk is finalized
\* and another piece follows, the next running chunk is the last
\* chunk_overlap characters of the running chunk as it was before stripping,
\* a blank and the next piece if the running chunk is longer than
\* chunk_overlap, and the next piece alone if it is not; the chunks returned
\* are the finalized chunks and the last running chunk, stripped.
C25_OverlapWhenLonger ==
    pc = "chunk_text" /\ chunker.chunk_overlap > 0
       /\ _extract_table_blocks(chunker, args.text) = <<>> =>
        LET Holds(chunks) ==
                /\ chunks # <<>> =>
                      Flushed(MergeState(chunker, chunks, Len(chunks)))
                          = _merge_and_overlap(chunker, chunks)
                /\ \A n \in 1..Len(chunks) : FinalizedAt(chunker, chunks, n) =>
                      LET Follows(s, t) ==
                              /\ t.final_chunks = Append(s.final_chunks, Strip(s.current_chunk))
                              /\ t.current_chunk =
                                    IF Len(s.current_chunk) > chunker.chunk_overlap
                                    THEN LastN(s.current_chunk, chunker.chunk_overlap)
                                             \o <<" ">> \o chunks[n + 1]
                                    ELSE chunks[n + 1]
                      IN  Follows(MergeState(chunker, chunks, n),
                                  MergeState(chunker, chunks, n + 1))
        IN  Holds(SplitPieces(chunker, args.text))

\* a running chunk no longer than chunk_overlap is finalized, and so is one
\* that is longer
C25_Witness ==
    /\ pc = "chunk_text" /\ chunker.chunk_overlap > 0
    /\ _extract_table_blocks(chunker, args.text) = <<>>
    /\ LET Seen(chunks) ==
               /\ \E n \in 1..Len(chunks) :
                     /\ FinalizedAt(chunker, chunks, n)
                     /\ Len(MergeState(chunker, chunks, n).current_chunk)
                            <= chunker.chunk_overlap
               /\ \E n \in 1..Len(chunks) :
                     /\ FinalizedAt(chunker, chunks, n)
                     /\ Len(MergeState(chunker, chunks, n).current_chunk)
                            > chunker.chunk_overlap
       IN  Seen(SplitPieces(chunker, args.text))

\* C26: enhance_text_with_temporal_context returns, for a text and metadata,
\* the same string on every call: whatever order list(set(...)) gives the
\* values of a bucket in, the values kept and their order are the same
C26_SameStringEveryCall ==
    pc = "enhance_text_with_temporal_context" =>
        \A ordered \in SetOrders(ListedValues(extract_temporal_info(args.text),
                                              libc_pads_year)) :
            ret = enhance_text_with_temporal_context(args.text, args.metadata, ordered)

(***************************************************************************)
(* TemporalEmbeddingHandler._extract_table_context                         *)
(* (temporal_embeddings.py:58-139) and the table section the parser writes *)
(* (document_parser.py:262).  A position is (start, end) of a match.       *)
(***************************************************************************)
TableData == <<"[","T","a","b","l","e"," ","D","a","t","a","]">>
TableColumn(header) ==
    <<"[","T","a","b","l","e"," ","C","o","l","u","m","n",":"," ">> \o header \o <<"]">>

\* the 0-based index at which part k of s.split(sep) starts, sep one character
PartStart(parts, k) ==
    IF k = 1 THEN 0 ELSE Len(Join(SubSeq(parts, 1, k - 1), <<"|">>)) + 1

\* line 83: [h.strip() for h in header_line.split('|') if h.strip()]
Headers(header_line) ==
    LET Stripped(cells) == [i \in 1..Len(cells) |-> Strip(cells[i])]
    IN  SelectSeq(Stripped(SplitBy(header_line, <<"|">>)), LAMBDA h : h # <<>>)

\* line 93: a line of dashes, bars and blanks only
IsSeparatorLine(line) ==
    Strip(line) # <<>> /\ \A i \in 1..Len(Strip(line)) : Strip(line)[i] \in {"-", "|", " "}

\* lines 102-122: the cell of the line that holds pos_in_line, mapped to its header
ContextInLine(line, pos_in_line, headers) ==
    LET InCells(cells) ==
            LET Holding ==
                    {i \in 1..Len(cells) :
                        /\ PartStart(cells, i) <= pos_in_line
                        /\ pos_in_line < PartStart(cells, i) + Len(cells[i])}
                cell_index(i) == IF Strip(cells[1]) = <<>> THEN i - 2 ELSE i - 1
            IN  IF \E i \in Holding : 0 <= cell_index(i) /\ cell_index(i) < Len(headers)
                THEN LET i == CHOOSE i \in Holding : TRUE
                     IN  TableColumn(headers[cell_index(i) + 1])
                ELSE TableData
    IN  InCells(SplitBy(line, <<"|">>))

\* line 87: position[0] - table_match.start()
entity_pos_in_table(m, position) == position[1] - m.start

\* lines 74-129: the context of a position inside the table match m
ContextInTable(m, position) ==
    IF Strip(m.inner) = <<>> THEN TableData
    ELSE LET InLines(lines, pos) ==
                 LET LineStart(k) ==
                         IF k = 1 THEN 0
                         ELSE Len(Join(SubSeq(lines, 1, k - 1), <<"\n">>)) + 1
                     Holding ==
                         {k \in 1..Len(lines) :
                             /\ ~IsSeparatorLine(lines[k])
                             /\ LineStart(k) <= pos
                             /\ pos < LineStart(k) + Len(lines[k])}
                 IN  IF Len(lines) < 2 \/ Holding = {} THEN TableData
                     ELSE LET k == CHOOSE k \in Holding : TRUE
                          IN  ContextInLine(lines[k], pos - LineStart(k),
                                            Headers(lines[1]))
         IN  InLines(SplitBy(m.inner, <<"\n">>), entity_pos_in_table(m, position))

_extract_table_context(text, position) ==
    LET First(ms) ==
            LET Around == {k \in 1..Len(ms) :
                              ms[k].start <= position[1] /\ position[1] <= ms[k].end}
            IN  IF Around = {} THEN None
                ELSE Some(ContextInTable(
                         ms[CHOOSE k \in Around : \A l \in Around : k <= l], position))
    IN  First(TableMatches(text, 1))

\* lines 190-198: every entity with its table context
temporal_entities(text) ==
    LET With(es) ==
            [i \in 1..Len(es) |->
                [type |-> es[i].type, value |-> es[i].value, position |-> es[i].position,
                 context |-> _extract_table_context(text, es[i].position)]]
    IN  With(extract_temporal_info(text))

\* document_parser.py:262: f"[TABLE {global_table_num}]\n{table_markdown}\n[END TABLE]"
TableMarker == <<"[","T","A","B","L","E"," ","1","]","\n">>
table_section(table_markdown) == TableMarker \o table_markdown \o <<"\n">> \o TableClose

(***************************************************************************)
(* extract_temporal_info on a page of text and one table of the parser.    *)
(***************************************************************************)
H_Period == <<"P","e","r","i","o","d">>
H_Due    == <<"D","u","e">>
HeaderRows == { <<Some(H_Period), Some(H_Due)>>, <<Some(H_Due), Some(H_Period)>> }
DataCells  == { Some(<<"x">>), Some(<<"2","0","2","4">>), Some(D_2023_01_02) }
DataRows   == [1..MaxCols -> DataCells]
ContextTables ==
    {<<h>> \o rows : h \in HeaderRows,
                     rows \in UNION {[1..k -> DataRows] : k \in 1..(MaxRows - 1)}}
TextsBefore == { <<>>, <<"I","n","t","r","o",".","\n","\n">> }

ExtractTemporalInfo ==
    /\ pc = "idle"
    /\ \E before \in TextsBefore, table \in ContextTables :
          LET Call(text) ==
                  /\ args' = [text |-> text, table |-> table,
                              at |-> Len(before) + Len(TableMarker)]
                  /\ ret'  = temporal_entities(text)
          IN  Call(before \o table_section(_table_to_markdown(Some(table))))
    /\ pc' = "extract_temporal_info"
    /\ UNCHANGED <<libc_pads_year, chunker, embedding, ingest>>

NextContext == ExtractTemporalInfo
SpecContext == InitTable /\ [][NextContext]_vars

\* where, in the table args.table written at offset args.at of the text, the
\* 0-based index p lies: the line of the markdown and the column, counted by
\* the bars before it in that line
PlaceOf(a, p) ==
    LET In(lines) ==
            LET LineStart(k) ==
                    a.at + (IF k = 1 THEN 0
                            ELSE Len(Join(SubSeq(lines, 1, k - 1), <<"\n">>)) + 1)
                k == CHOOSE k \in 1..Len(lines) :
                         LineStart(k) <= p /\ p < LineStart(k) + Len(lines[k])
            IN  [line   |-> k,
                 column |-> Cardinality({i \in 1..(p - LineStart(k)) : lines[k][i] = "|"})]
    IN  In(SplitBy(_table_to_markdown(Some(a.table)), <<"\n">>))

\* C27: an entity in a data cell of column j of a table in the parser's
\* layout has the context '[Table Column: H]', H the header cell of column j
C27_ColumnHeaderContext ==
    pc = "extract_temporal_info" =>
        \A i \in 1..Len(ret) :
            LET Right(place) ==
                    place.line >= 3 =>
                        ret[i].context =
                            Some(TableColumn(Strip(args.table[1][place.column].v)))
            IN  Right(PlaceOf(args, ret[i].position[1]))

\* the results have equal recency keys: the same parsed date, or datetime.min
\* for both
SameRecencyKey(r, s) == get_date_key(r).t = get_date_key(s).t

\* C28: when query applies the recency sort, any two results it returns
\* whose recency keys are equal stand in descending order of score
C28_EqualKeysByScore ==
    (pc = "query" /\ ~ret.raised /\ _detect_temporal_intent(args.query_text)) =>
        \A i, j \in 1..Len(ret.results) :
            i < j /\ SameRecencyKey(ret.results[i], ret.results[j])
                => ret.results[i].score >= ret.results[j].score

\* two neighbours with equal keys come in with the lower score first and go
\* out, after the recency sort, with the higher score first
C28_Witness ==
    /\ pc = "query" /\ ~ret.raised /\ _detect_temporal_intent(args.query_text)
    /\ Len(args.neighbors) = 2 /\ Len(ret.results) = 2
    /\ args.neighbors[1].score < args.neighbors[2].score
    /\ SameRecencyKey(args.neighbors[1], args.neighbors[2])
    /\ ret.results[1] = args.neighbors[2]

(***************************************************************************)
(* The file loop of import_from_gcs (vector_search_manager.py:925-1105).   *)
(* While it runs, ingest holds the listed files, the 0-based index of the  *)
(* file in work, the step that file is at, and the two result lists.  Each *)
(* step of a file either is done or raises; what the steps compute is in   *)
(* ImportFromGcs .. ImportDocuments above.                                 *)
(***************************************************************************)
MaxFiles == 3

\* lines 967, 970, 990-1021, 305 and 376: download_gcs_file, parse_document,
\* the chunker, generate_batch_embeddings and upsert_datapoints
FileSteps == <<"download", "parse", "chunk", "embed", "upsert">>

GcsFiles == {FileInfo([filename |-> f, content_type |-> TextPlain, pages |-> <<>>]) :
                f \in {F_Plain, F_Notes, F_Quarter}}

\* what list_gcs_files can return: up to MaxFiles files, each once
GcsFileLists ==
    {fs \in SeqsUpTo(GcsFiles, MaxFiles) : \A i, j \in 1..Len(fs) : fs[i] = fs[j] => i = j}

\* lines 1057-1062
ImportedFile(file_info) ==
    [filename |-> file_info.filename, gcs_path |-> file_info.gcs_path,
     status |-> "success"]

\* lines 1073-1078
FailedFile(file_info, error) ==
    [filename |-> file_info.filename, gcs_path |-> file_info.gcs_path,
     error |-> error, status |-> "failed"]

\* mutant: the exception of a file ends the loop
AfterFailure_Stop(s, error) ==
    [s EXCEPT !.failed_files = Append(@, FailedFile(s.files[s.index + 1], error)),
              !.index = Len(s.files), !.step = 1]

\* lines 1072-1084: the except clause of the loop body, then the next file
AfterFailure(s, error) ==
    [s EXCEPT !.failed_files = Append(@, FailedFile(s.files[s.index + 1], error)),
              !.index = @ + 1, !.step = 1]

\* lines 1093-1104 and 940-944
GcsResult(s) ==
    [success        |-> Len(s.imported_files) > 0,
     files_found    |-> Len(s.files),
     files_imported |-> Len(s.imported_files),
     files_failed   |-> Len(s.failed_files),
     imported_files |-> s.imported_files,
     failed_files   |-> s.failed_files]
NoFilesResult == [success |-> FALSE, files_found |-> 0]

\* lines 936-954: the files are listed
ListGcsFiles ==
    /\ pc = "idle"
    /\ \E files \in GcsFileLists :
          /\ args' = [gcs_path |-> GcsPath(<<>>), files |-> files]
          /\ IF files = <<>>
             THEN /\ ret' = NoFilesResult /\ pc' = "import_from_gcs"
                  /\ UNCHANGED ingest
             ELSE /\ ingest' = [files |-> files, index |-> 0, step |-> 1,
                                imported_files |-> <<>>, failed_files |-> <<>>]
                  /\ pc' = "gcs_file" /\ UNCHANGED ret
    /\ UNCHANGED <<libc_pads_year, chunker, embedding>>

\* lines 957-1070: a step of the file in work is done; after the last step
\* the file is appended to imported_files
GcsFileStep ==
    /\ pc = "gcs_file" /\ ingest.index < Len(ingest.files)
    /\ ingest' =
          IF ingest.step < Len(FileSteps) THEN [ingest EXCEPT !.step = @ + 1]
          ELSE [ingest EXCEPT
                   !.imported_files = Append(@, ImportedFile(ingest.files[ingest.index + 1])),
                   !.index = @ + 1, !.step = 1]
    /\ UNCHANGED <<pc, args, ret, libc_pads_year, chunker, embedding>>

\* lines 1072-1084: a step of the file in work raises
GcsFileRaises ==
    /\ pc = "gcs_file" /\ ingest.index < Len(ingest.files)
    /\ ingest' = AfterFailure(ingest, FileSteps[ingest.step])
    /\ UNCHANGED <<pc, args, ret, libc_pads_year, chunker, embedding>>

\* lines 1093-1104: the loop is over
ImportFromGcsReturns ==
    /\ pc = "gcs_file" /\ ingest.index = Len(ingest.files)
    /\ ret' = GcsResult(ingest)
    /\ pc' = "import_from_gcs"
    /\ UNCHANGED <<args, libc_pads_year, chunker, embedding, ingest>>

NextGcs == ListGcsFiles \/ GcsFileStep \/ GcsFileRaises \/ ImportFromGcsReturns
SpecGcs == InitIngest /\ [][NextGcs]_vars

\* the entries of a result list for a file
EntriesFor(list, file_info) ==
    Cardinality({k \in 1..Len(list) : list[k].filename = file_info.filename})

\* C29: in import_from_gcs a file that fails at any step does not stop the
\* files after it: every listed file is in exactly one of imported_files and
\* failed_files, files_imported + files_failed = files_found, and success is
\* true exactly when a file was imported
C29_EveryFileAccounted ==
    pc = "import_from_gcs" =>
        IF args.files = <<>> THEN ~ret.success
        ELSE /\ \A k \in 1..Len(args.files) :
                   EntriesFor(ret.imported_files, args.files[k])
                       + EntriesFor(ret.failed_files, args.files[k]) = 1
             /\ ret.files_found = Len(args.files)
             /\ ret.files_imported = Len(ret.imported_files)
             /\ ret.files_failed = Len(ret.failed_files)
             /\ ret.files_imported + ret.files_failed = ret.files_found
             /\ ret.success <=> ret.imported_files # <<>>

\* the first file failed while it was embedded, and the file after it was
\* imported
C29_Witness ==
    /\ pc = "import_from_gcs" /\ Len(args.files) >= 2
    /\ ret.failed_files # <<>>
    /\ ret.failed_files[1].filename = args.files[1].filename
    /\ ret.failed_files[1].error = "embed"
    /\ EntriesFor(ret.imported_files, args.files[2]) = 1

(***************************************************************************)
(* The PDF ingest path: parse_pdf_by_pages (document_parser.py:204-352) on *)
(* a PDF given as the text of each of its pages, pages without tables, and *)
(* chunk_pdf_by_pages on the page_texts it returns                         *)
(* (vector_search_manager.py:992-1010).                                    *)
(***************************************************************************)
MaxPdfPages == 3

\* lines 278-280 and 330-336: the stripped text of the pages that have any
RECURSIVE NonEmptyPages(_)
NonEmptyPages(pages) ==
    IF pages = <<>> THEN <<>>
    ELSE (IF Strip(pages[1]) # <<>> THEN <<Strip(pages[1])>> ELSE <<>>)
         \o NonEmptyPages(Tail(pages))

parse_pdf_by_pages(pages) ==
    [PdfData(NonEmptyPages(pages)) EXCEPT !.total_pages = Len(pages)]

P_Alpha == <<"A","l","p","h","a"," ","o","n","e",".">>
P_Beta  == <<" ","B","e","t","a"," ","t","w","o",".">>
PdfPages == { <<>>, <<" ", "\n">>, P_Alpha, P_Beta }
\* the PDFs of up to MaxPdfPages pages, no text on two pages
Pdfs ==
    {pdf \in SeqsUpTo(PdfPages, MaxPdfPages) :
        \A i, j \in 1..Len(pdf) : i # j /\ pdf[i] = pdf[j] => Strip(pdf[i]) = <<>>}

IngestPdf ==
    /\ pc = "idle"
    /\ \E pdf \in Pdfs, c \in Callers :
          /\ args' = [pdf |-> pdf, metadata |-> c.metadata, document_id |-> c.document_id]
          /\ ret'  = chunk_pdf_by_pages(chunker, parse_pdf_by_pages(pdf).page_texts,
                                        c.metadata, c.document_id)
    /\ pc' = "ingest_pdf"
    /\ UNCHANGED <<libc_pads_year, chunker, embedding, ingest>>

NextPdf == IngestPdf
SpecPdf == InitChunk /\ [][NextPdf]_vars

\* C30: on the PDF ingest path the page_number of a chunk is the 1-based
\* number, in the PDF, of the page the chunk's text came from, also when an
\* earlier page has no content
C30_PageNumberOfOrigin ==
    pc = "ingest_pdf" =>
        \A n \in 1..Len(ret) : \A p \in 1..Len(args.pdf) :
            ret[n].content # <<>> /\ Contains(args.pdf[p], ret[n].content)
                => ret[n].metadata.page_number = p


====
